---- MODULE Spec2Model ----
(***************************************************************************)
(* Model of the idle_rpg game core: the world generator and its periodic   *)
(* cleanup, the auto-combat state machine, the jump/climb handling of the  *)
(* per-frame update, and the PhysicsEngine wrapper.                        *)
(*                                                                         *)
(* Units: positions and heights are whole pixels; values of seededRandom   *)
(* are thousandths (0..999); Date.now() is in whole milliseconds; the      *)
(* frame delta and the jump cooldown are in microseconds; velocities are   *)
(* tenths of a pixel per physics step.                                     *)
(***************************************************************************)
EXTENDS Integers, Sequences, FiniteSets, TLC

\* ---------------------------------------------------------------- constants
PLATFORM_CHUNK_SIZE == 400
PLATFORM_WIDTH_MIN == 150
PLATFORM_WIDTH_MAX == 300
CLEANUP_INTERVAL == 2000
UNRENDER_DISTANCE == 2000
VIEW_AHEAD == 600
MIN_OVERLAP == 40

ATTACK_RANGE_DEFAULT == 100
VERTICAL_WEIGHT == 5
SAME_LEVEL_DY == 50
LADDER_REACH == 10
MAX_ENEMIES == 10
ENEMY_SPAWN_RATE == 2500

MOVE_SPEED == 200
CLIMB_SPEED == 180
JUMP_FORCE == 140
JUMP_COOLDOWN == 200000
DELTA_CAP == 16667
PLAYER_WIDTH == 30
PLAYER_HEIGHT == 45
ENEMY_SIZE == 50
PLATFORM_THICKNESS == 20
GRAVITY_STEP == 4
LADDER_TOLERANCE == 10

AI_STATE == [MOVING_RIGHT |-> "MOVING_RIGHT",
             MOVING_TO_ENEMY |-> "MOVING_TO_ENEMY",
             ATTACKING_ENEMY |-> "ATTACKING_ENEMY"]

PLATFORM_LEVELS == [ground |-> 0, level1 |-> 180, level2 |-> 360, level3 |-> 540]

levels == <<"level1", "level2", "level3">>

\* ------------------------------------------------------------------- bounds
MaxX == 5100
StepX == 300
MaxNow == 16000
StartNow == 3000

MaxEnemies == 2
MaxSpawns == 2

MaxTicks == 3
MaxSteps == 3
MaxBodies == 1
MaxCombatTicks == 5
MaxLoopTime == 80000
MaxFrames == 6
HordeMaxX == 4300

\* ------------------------------------------------------------------- inputs
\* Player situations around the ladder at x = 1446 (ground to level1): one pixel
\* outside and exactly at 0.8 * attackRange of an enemy at 1430, at the foot of
\* the ladder, on it 49 below level1, and on level1.
PlayerPoses ==
  {[x |-> 1349, y |-> 0, climbing |-> FALSE],
   [x |-> 1350, y |-> 0, climbing |-> FALSE],
   [x |-> 1446, y |-> 0, climbing |-> FALSE],
   [x |-> 1446, y |-> 131, climbing |-> TRUE],
   [x |-> 1446, y |-> 131, climbing |-> FALSE],
   [x |-> 1446, y |-> 180, climbing |-> FALSE]}
EnemySpots ==
  {[x |-> 1270, level |-> "level1"],
   [x |-> 1430, level |-> "level1"],
   [x |-> 1430, level |-> "ground"]}
\* Around the ladder at x = 1446 under the level1 platform [1232, 1507].
MoveMinX == 1437
MoveMaxX == 1455
MoveStarts == {[x |-> 1446, y |-> 0], [x |-> 1446, y |-> 180]}
MoveKeys == {"up", "down", "left", "right", "jump"}
BodySpots == {[x |-> 1446, y |-> 0], [x |-> 1446, y |-> 90], [x |-> 1446, y |-> 180]}
EnemyBodySpots == {[x |-> 1430, y |-> 0], [x |-> 1430, y |-> 180]}
EnginePlatformIds == {5}
RegistryPlatformIds == {5, 6, 9}
RegistryLadderIds == {7, 8, 12}
RegistryRemoveIds == {5, 6, 7, 8, 9, 12, 99}
EngineMoves == {33}
Widths == {800, 1000}
StartXs == {200, 3500, 5000}
FrameGaps == {1000, 3000}
\* performance.now() between two frames of the loop: a fast frame, a frame of
\* 60 Hz, a stall.
LoopGaps == {10000, 16667, 40000}
\* Date.now() between two frames of the combat.
CombatGap == 250
\* Where the player asks for a ladder: left of the first ladders, under the
\* level1 platform at 1232, between the ladders at 1749 and 1780; on the
\* ground, part way up a ladder, and at each level.
LadderAskXs == {700, 1400, 1760}
LadderAskYs == {0, 100, 180, 360, 540}
\* The targets stand on the first platforms of the stage or on the ground.
LadderTargetPlatforms == 7
\* A wide stage, the player past x = 3400, and the ground enemies that crowd
\* around the player there.
HordeWidths == {1200}
HordeStartXs == {3400}
HordeCrowds == {0, 9}
\* Math.random() of the spawn position on a platform, in thousandths.
SpawnDraws == {500}
\* Date.now() between two ticks: a frame within the spawn rate, a stall beyond it.
OrderGaps == {300, 2600}
OrderKeys == {"attack", "right"}
\* The player on the ground, or on the ladder at x = 1446 below level1.
CombatStarts == {[x |-> 1446, y |-> 0], [x |-> 1446, y |-> 100]}
\* One pixel outside the reach ahead and behind of a player at x = 1446, and on
\* the level1 platform [1232, 1507].
CombatSpots ==
  <<[x |-> 1547, level |-> "ground"],
    [x |-> 1394, level |-> "ground"],
    [x |-> 1440, level |-> "level1"]>>

\* Math.sin-based hash of index.js, tabulated in thousandths for every seed
\* the generator uses in chunks 0..16: floor(1000 * frac(sin(seed*9999)*10000)).
SeedTable ==
    0 :> 0 @@ 17 :> 718 @@ 23 :> 330 @@ 31 :> 171 @@ 34 :> 929 @@ 37 :> 909 @@ 41 :> 623 @@ 46 :> 302 @@
    48 :> 350 @@ 51 :> 179 @@ 53 :> 793 @@ 59 :> 887 @@ 62 :> 898 @@ 64 :> 93 @@ 65 :> 743 @@ 67 :> 54 @@
    68 :> 251 @@ 69 :> 839 @@ 74 :> 891 @@ 79 :> 42 @@ 82 :> 241 @@ 85 :> 660 @@ 87 :> 403 @@ 89 :> 8 @@
    90 :> 859 @@ 92 :> 438 @@ 96 :> 747 @@ 97 :> 86 @@ 99 :> 224 @@ 102 :> 63 @@ 105 :> 952 @@ 106 :> 716 @@
    110 :> 533 @@ 111 :> 256 @@ 113 :> 938 @@ 115 :> 504 @@ 116 :> 499 @@ 118 :> 46 @@ 119 :> 690 @@ 126 :> 579 @@
    127 :> 699 @@ 128 :> 698 @@ 130 :> 346 @@ 133 :> 79 @@ 134 :> 472 @@ 136 :> 114 @@ 138 :> 717 @@ 143 :> 902 @@
    147 :> 189 @@ 148 :> 204 @@ 150 :> 217 @@ 151 :> 517 @@ 153 :> 359 @@ 156 :> 578 @@ 161 :> 471 @@ 164 :> 437 @@
    167 :> 891 @@ 170 :> 544 @@ 174 :> 98 @@ 177 :> 966 @@ 178 :> 868 @@ 179 :> 879 @@ 180 :> 979 @@ 181 :> 805 @@
    184 :> 377 @@ 185 :> 850 @@ 186 :> 282 @@ 187 :> 934 @@ 193 :> 72 @@ 194 :> 263 @@ 197 :> 111 @@ 198 :> 365 @@
    201 :> 511 @@ 202 :> 570 @@ 204 :> 875 @@ 207 :> 856 @@ 215 :> 490 @@ 217 :> 856 @@ 218 :> 494 @@ 220 :> 568 @@
    221 :> 806 @@ 222 :> 382 @@ 225 :> 486 @@ 230 :> 817 @@ 232 :> 884 @@ 235 :> 833 @@ 236 :> 537 @@ 238 :> 97 @@
    243 :> 255 @@ 244 :> 798 @@ 248 :> 288 @@ 249 :> 680 @@ 252 :> 907 @@ 253 :> 441 @@ 254 :> 894 @@ 255 :> 367 @@
    259 :> 692 @@ 266 :> 225 @@ 267 :> 568 @@ 269 :> 231 @@ 271 :> 144 @@ 272 :> 115 @@ 275 :> 441 @@ 276 :> 68 @@
    283 :> 415 @@ 286 :> 733 @@ 289 :> 383 @@ 291 :> 649 @@ 294 :> 502 @@ 295 :> 168 @@ 296 :> 463 @@ 299 :> 187 @@
    300 :> 556 @@ 303 :> 412 @@ 311 :> 163 @@ 312 :> 150 @@ 317 :> 971 @@ 322 :> 535 @@ 328 :> 515 @@ 333 :> 903 @@
    334 :> 55 @@ 335 :> 244 @@ 340 :> 309 @@ 345 :> 305 @@ 349 :> 669 @@ 354 :> 809 @@ 356 :> 593 @@ 358 :> 542 @@
    362 :> 9 @@ 363 :> 513 @@ 364 :> 823 @@ 365 :> 444 @@ 368 :> 447 @@ 370 :> 28 @@ 372 :> 243 @@ 381 :> 71 @@
    386 :> 21 @@ 402 :> 490 @@ 404 :> 89 @@ 407 :> 797 @@ 409 :> 10 @@ 413 :> 855 @@ 421 :> 307 @@ 423 :> 92 @@
    427 :> 281 @@ 429 :> 898 @@ 439 :> 924 @@ 444 :> 803 @@ 445 :> 267 @@ 450 :> 49 @@ 453 :> 362 @@ 460 :> 830 @@
    461 :> 404 @@ 472 :> 890 @@ 476 :> 962 @@ 480 :> 298 @@ 481 :> 278 @@ 488 :> 441 @@ 497 :> 212 @@ 513 :> 976 @@
    518 :> 320 @@ 531 :> 276 @@ 534 :> 995 @@ 539 :> 918 @@ 542 :> 182 @@ 547 :> 542 @@ 550 :> 354 @@ 555 :> 356 @@
    571 :> 474 @@ 587 :> 829 @@ 590 :> 546 @@ 592 :> 883 @@ 598 :> 536 @@ 606 :> 168 @@ 608 :> 380 @@ 623 :> 978 @@
    624 :> 38 @@ 631 :> 555 @@ 639 :> 322 @@ 645 :> 347 @@ 649 :> 612 @@ 657 :> 263 @@ 661 :> 760 @@ 665 :> 169 @@
    698 :> 957 @@ 708 :> 763 @@ 712 :> 655 @@ 716 :> 103 @@ 720 :> 484 @@ 724 :> 59 @@ 728 :> 58 @@ 767 :> 472 @@
    775 :> 975 @@ 783 :> 804 @@ 801 :> 744 @@ 809 :> 234 @@ 817 :> 672 @@ 826 :> 995 @@ 834 :> 629 @@ 842 :> 652 @@
    885 :> 799 @@ 890 :> 899 @@ 893 :> 477 @@ 898 :> 791 @@ 901 :> 40 @@ 906 :> 921 @@ 944 :> 812 @@ 952 :> 392 @@
    960 :> 600 @@ 979 :> 464 @@ 987 :> 861 @@ 995 :> 561 @@ 1011 :> 481 @@ 1019 :> 303 @@ 1068 :> 33 @@ 1076 :> 263 @@
    1078 :> 746 @@ 1084 :> 995 @@ 1157 :> 445 @@ 1165 :> 565 @@ 1173 :> 930 @@ 1246 :> 463 @@ 1254 :> 907 @@ 1262 :> 355 @@
    1335 :> 265 @@ 1343 :> 526 @@ 1351 :> 457 @@ 1424 :> 764 @@ 1432 :> 709 @@ 1440 :> 973 @@ 1521 :> 421 @@ 1529 :> 120 @@
    1618 :> 580

seededRandom(seed) == SeedTable[seed]

null == 0

\* ---------------------------------------------------------------- variables
VARIABLES
  width,                 \* GameContent prop: viewport width
  playerPos,             \* React state playerPos {x, y}
  now,                   \* Date.now() as read by the latest tick
  lastCleanupRef,
  lastPlatformChunkRef,
  idCounter,
  platforms,             \* React state: array of platform records
  ladders,               \* React state: array of ladder records
  physPlatforms,         \* key set of physics.platforms
  physLadders,           \* physics.ladders
  newPlatforms,          \* local array of the latest generatePlatformsAndLadders call
  newLadders,
  autoAttackEnabled,     \* GameContent prop, toggled with the R key
  aiStateRef,            \* {state, targetId} kept between frames
  wasAutoAttackEnabledRef,
  aiPrev,                \* aiStateRef as the latest tick found it
  enemies,               \* React state: array of enemy records
  isClimbing,            \* React state
  keysPressed,           \* key snapshot written by the key handlers
  currentKeys,           \* the tick's local copy of the keys after the AI override
  bodies,                \* physics.bodies: key -> body
  playerClimbing,        \* physics.playerClimbing
  jumpCooldownRef,
  jumpRequestedRef,
  lastJump,              \* what the jump handling of the latest tick did
  ticks,                 \* frames run / physics steps taken
  facingRight,           \* React state
  character,             \* prop: the owner's character state
  isAttacking,           \* React state
  attackTimeoutRef,      \* timer of the latest attack animation, <<>> when none yet
  lastAttackRef,
  timers,                \* pending setTimeout callbacks
  mounted,               \* FALSE once the stage's effects have been cleaned up
  lastSwing,             \* what the latest attackEnemy call found and did
  lastAward,             \* what the latest XP award found and did
  perfNow,               \* performance.now(), microseconds since the first render
  lastTimeRef,
  frameRef,              \* id of the frame requested last, null after pause()
  frames,                \* ids of the animation frames requested and still pending
  frameSeq,              \* id the latest requestAnimationFrame returned
  updateCalls,           \* number of times the loop has called the game update
  lastDelta,             \* delta handed to the latest game update
  pauseReturned,         \* pause() has returned and resume() was not called since
  resumedAt,             \* <<performance.now() of resume()>> until the next frame
  tickStep,              \* statements of the running gameUpdate already done, 0 between ticks
  ran,                   \* the steps the latest gameUpdate has run, in order
  lastSpawnRef,
  ladderFound,           \* <<what findLadderToTarget returned>> once it was asked
  killed,                \* ids of the enemies a swing has marked dying
  paid                   \* ids of the enemies whose reward timer has fired, in order

worldVars == <<width, playerPos, now, lastCleanupRef, lastPlatformChunkRef, idCounter,
               platforms, ladders, physPlatforms, physLadders, newPlatforms, newLadders>>

aiVars == <<autoAttackEnabled, aiStateRef, wasAutoAttackEnabledRef, aiPrev, enemies,
            isClimbing, keysPressed, currentKeys>>

physVars == <<bodies, playerClimbing, jumpCooldownRef, jumpRequestedRef, lastJump, ticks>>

combatVars == <<facingRight, character, isAttacking, attackTimeoutRef, lastAttackRef,
                timers, mounted, lastSwing, lastAward>>

loopVars == <<perfNow, lastTimeRef, frameRef, frames, frameSeq, updateCalls, lastDelta,
              pauseReturned, resumedAt>>

orderVars == <<tickStep, ran, lastSpawnRef>>

moreVars == <<ladderFound, killed, paid>>

restVars == <<combatVars, loopVars, orderVars, moreVars>>

vars == <<worldVars, aiVars, physVars, restVars>>

\* ------------------------------------------------------------------ helpers
Max(a, b) == IF a >= b THEN a ELSE b
Min(a, b) == IF a <= b THEN a ELSE b
Abs(a) == IF a >= 0 THEN a ELSE -a

Range(s) == {s[i] : i \in DOMAIN s}

Ids(s) == {s[i].id : i \in DOMAIN s}

\* Array.prototype.filter with the platform / ladder cleanup predicate
RECURSIVE KeepFrom(_, _)
KeepFrom(s, limit) ==
  IF s = <<>> THEN <<>>
  ELSE IF Head(s).worldX >= limit THEN <<Head(s)>> \o KeepFrom(Tail(s), limit)
       ELSE KeepFrom(Tail(s), limit)

\* Array.prototype.filter(l => l.id !== id)
RECURSIVE WithoutId(_, _)
WithoutId(s, id) ==
  IF s = <<>> THEN <<>>
  ELSE IF Head(s).id # id THEN <<Head(s)>> \o WithoutId(Tail(s), id)
       ELSE WithoutId(Tail(s), id)

RECURSIVE WithoutIds(_, _)
WithoutIds(s, ids) ==
  IF s = <<>> THEN <<>>
  ELSE IF Head(s).id \notin ids THEN <<Head(s)>> \o WithoutIds(Tail(s), ids)
       ELSE WithoutIds(Tail(s), ids)

\* ---------------------------------------------------------- world generator
\* First pass of one chunk: the platforms of levels levelIndex..2.
RECURSIVE PlatformPass(_, _, _, _)
PlatformPass(chunk, levelIndex, id, acc) ==
  IF levelIndex > 2 THEN [platforms |-> acc, idCounter |-> id]
  ELSE
    LET levelKey == levels[levelIndex + 1]
        probability == 700 - levelIndex * 150
    IN IF seededRandom(chunk * 17 + levelIndex * 31) < probability
       THEN LET platformWidth == PLATFORM_WIDTH_MIN
                     + (seededRandom(chunk * 23 + levelIndex * 41)
                          * (PLATFORM_WIDTH_MAX - PLATFORM_WIDTH_MIN)) \div 1000
                xOffset == (seededRandom(chunk * 37 + levelIndex * 53)
                              * (PLATFORM_CHUNK_SIZE - platformWidth)) \div 1000
                platform == [id |-> id + 1,
                             worldX |-> chunk * PLATFORM_CHUNK_SIZE + xOffset,
                             height |-> PLATFORM_LEVELS[levelKey],
                             width |-> platformWidth,
                             level |-> levelKey]
            IN PlatformPass(chunk, levelIndex + 1, id + 1, Append(acc, platform))
       ELSE PlatformPass(chunk, levelIndex + 1, id, acc)

\* chunkPlatforms[levelKey], as the set of platforms of that level (empty = undefined)
ChunkPlatformAt(chunkPlatforms, levelKey) ==
  {p \in Range(chunkPlatforms) : p.level = levelKey}

\* A ground ladder that names its own platform as its bottom.
GroundLadderLinked(id, ladderX, levelKey, platform) ==
  [id |-> id, worldX |-> ladderX,
   bottomHeight |-> PLATFORM_LEVELS["ground"], topHeight |-> PLATFORM_LEVELS[levelKey],
   topPlatformId |-> platform.id, bottomPlatformId |-> platform.id,
   topLevel |-> levelKey, bottomLevel |-> "ground"]

\* The ladder object of a ladder from ground.
GroundLadder(id, ladderX, levelKey, platform) ==
  [id |-> id, worldX |-> ladderX,
   bottomHeight |-> PLATFORM_LEVELS["ground"], topHeight |-> PLATFORM_LEVELS[levelKey],
   topPlatformId |-> platform.id, bottomPlatformId |-> null,
   topLevel |-> levelKey, bottomLevel |-> "ground"]

\* A second pass that forgets the fallback when the lower level gives no connection.
FallbackLadderDropped(chunk, levelIndex, id, platform) == <<>>

\* The fallback of the second pass: a ladder straight from ground.
FallbackLadder(chunk, levelIndex, id, platform) ==
  <<GroundLadder(id,
       platform.worldX
         + (platform.width
              * (300 + (seededRandom(chunk * 89 + levelIndex * 97) * 400) \div 1000))
           \div 1000,
       levels[levelIndex + 1], platform)>>

\* The ladders (exactly one) the second pass creates for one platform.
LadderFor(chunk, levelIndex, id, platform, chunkPlatforms) ==
  LET levelKey == levels[levelIndex + 1]
      lowerLevelKey == IF levelIndex = 0 THEN "ground" ELSE levels[levelIndex]
      lowerSet == IF lowerLevelKey = "ground" THEN {}
                  ELSE ChunkPlatformAt(chunkPlatforms, lowerLevelKey)
      frac == 200 + (seededRandom(chunk * 59 + levelIndex * 67) * 600) \div 1000
  IN IF lowerLevelKey = "ground"
     THEN <<GroundLadder(id, platform.worldX + (platform.width * frac) \div 1000,
                         levelKey, platform)>>
     ELSE IF lowerSet # {}
     THEN LET lowerPlatform == CHOOSE p \in lowerSet : TRUE
              overlapStart == Max(platform.worldX, lowerPlatform.worldX)
              overlapEnd == Min(platform.worldX + platform.width,
                                lowerPlatform.worldX + lowerPlatform.width)
          IN IF overlapEnd - overlapStart >= MIN_OVERLAP
             THEN <<[id |-> id,
                     worldX |-> overlapStart + ((overlapEnd - overlapStart) * frac) \div 1000,
                     bottomHeight |-> PLATFORM_LEVELS[lowerLevelKey],
                     topHeight |-> PLATFORM_LEVELS[levelKey],
                     topPlatformId |-> platform.id,
                     bottomPlatformId |-> lowerPlatform.id,
                     topLevel |-> levelKey, bottomLevel |-> lowerLevelKey]>>
             ELSE FallbackLadder(chunk, levelIndex, id, platform)
     ELSE FallbackLadder(chunk, levelIndex, id, platform)

\* Second pass of one chunk: the ladders of levels levelIndex..2, bottom-up.
RECURSIVE LadderPass(_, _, _, _, _)
LadderPass(chunk, levelIndex, id, chunkPlatforms, acc) ==
  IF levelIndex > 2 THEN [ladders |-> acc, idCounter |-> id]
  ELSE
    LET here == ChunkPlatformAt(chunkPlatforms, levels[levelIndex + 1])
    IN IF here = {} THEN LadderPass(chunk, levelIndex + 1, id, chunkPlatforms, acc)
       ELSE LET platform == CHOOSE p \in here : TRUE
                made == LadderFor(chunk, levelIndex, id + 1, platform, chunkPlatforms)
            IN LadderPass(chunk, levelIndex + 1, id + Len(made), chunkPlatforms,
                          acc \o made)

\* The chunk loop of generatePlatformsAndLadders.
RECURSIVE GenerateChunks(_, _, _, _, _, _)
GenerateChunks(chunk, endChunk, cursor, id, accP, accL) ==
  IF chunk > endChunk
  THEN [newPlatforms |-> accP, newLadders |-> accL,
        lastPlatformChunkRef |-> cursor, idCounter |-> id]
  ELSE
    LET chunkStart == chunk * PLATFORM_CHUNK_SIZE
    IN IF chunkStart <= cursor
       THEN GenerateChunks(chunk + 1, endChunk, cursor, id, accP, accL)
       ELSE LET pp == PlatformPass(chunk, 0, id, <<>>)
                lp == LadderPass(chunk, 0, pp.idCounter, pp.platforms, <<>>)
            IN GenerateChunks(chunk + 1, endChunk, chunkStart, lp.idCounter,
                              accP \o pp.platforms, accL \o lp.ladders)

\* A generator that forgets its cursor and starts from the first chunk again.
generatePlatformsAndLaddersFromStart(viewEnd, cursor, id) ==
  GenerateChunks(0, (viewEnd + VIEW_AHEAD) \div PLATFORM_CHUNK_SIZE, 0, id, <<>>, <<>>)

generatePlatformsAndLadders(viewEnd, cursor, id) ==
  GenerateChunks(cursor \div PLATFORM_CHUNK_SIZE,
                 (viewEnd + VIEW_AHEAD) \div PLATFORM_CHUNK_SIZE,
                 cursor, id, <<>>, <<>>)

\* Camera offset of the render the tick's closure was created in.
scrollOffset == Max(0, playerPos.x - (width * 3) \div 10)

AllKeysUp == [up |-> FALSE, down |-> FALSE, left |-> FALSE, right |-> FALSE,
              jump |-> FALSE, attack |-> FALSE]

InitAIVars ==
  /\ autoAttackEnabled = FALSE
  /\ aiStateRef = [state |-> AI_STATE.MOVING_RIGHT, targetId |-> null]
  /\ wasAutoAttackEnabledRef = FALSE
  /\ aiPrev = [state |-> AI_STATE.MOVING_RIGHT, targetId |-> null]
  /\ enemies = <<>>
  /\ isClimbing = FALSE
  /\ keysPressed = AllKeysUp
  /\ currentKeys = AllKeysUp

BASE_ATTACK_SPEED == 600
ATTACK_ANIMATION_MS == 500      \* setTimeout(() => setIsAttacking(false), 500)
DEATH_REWARD_MS == 200          \* setTimeout(<reward>, 200)
ENEMY_REMOVAL_MS == 500         \* setTimeout(<removal>, 500)
CRIT_MULTIPLIER == 2            \* character.critMultiplier
STOP_DISTANCE == 30

\* getInitialStats of the default character: damageMultiplier 1, critChanceBonus 0,
\* critMultiplier 2.
NewCharacter ==
  [level |-> 1, xp |-> 0, xpToNext |-> 100, maxHealth |-> 100, health |-> 100,
   baseDamage |-> 10, attackSpeed |-> BASE_ATTACK_SPEED, gold |-> 0]

NoSwing == [swung |-> FALSE, at |-> 0, before |-> <<>>]

NoAward == [awarded |-> FALSE, prev |-> NewCharacter, xpReward |-> 0, levelsGained |-> 0]

\* State and refs of the combat at mount.
InitCombatVars ==
  /\ facingRight = TRUE
  /\ character = NewCharacter
  /\ isAttacking = FALSE
  /\ attackTimeoutRef = <<>>
  /\ lastAttackRef = 0
  /\ timers = {}
  /\ mounted = TRUE
  /\ lastSwing = NoSwing
  /\ lastAward = NoAward

\* Characters the owner hands in: a new one, one a slime short of level 2, and
\* one that a slime takes through two levels at once.
StartCharacters ==
  {NewCharacter,
   [NewCharacter EXCEPT !.xp = 95],
   [NewCharacter EXCEPT !.xp = 240]}

\* useGameLoop after the first render and its effects: lastTimeRef holds the
\* time of the render and the first frame is requested.
InitLoopVars ==
  /\ perfNow = 0
  /\ lastTimeRef = 0
  /\ frameRef = 1
  /\ frames = {1}
  /\ frameSeq = 1
  /\ updateCalls = 0
  /\ lastDelta = 0
  /\ pauseReturned = FALSE
  /\ resumedAt = <<>>

InitOrderVars ==
  /\ tickStep = 0
  /\ ran = <<>>
  /\ lastSpawnRef = 0

InitMoreVars ==
  /\ ladderFound = <<>>
  /\ killed = {}
  /\ paid = <<>>

InitRestVars ==
  /\ InitCombatVars
  /\ InitLoopVars
  /\ InitOrderVars
  /\ InitMoreVars

\* ------------------------------------------------------------ PhysicsEngine
\* The engine as a value: bodies by key, the climbing flag, the keys of the
\* platform map and the ladder array.
Engine ==
  [bodies |-> bodies, playerClimbing |-> playerClimbing,
   platforms |-> physPlatforms, ladders |-> physLadders]

NoBodies == [k \in {} |-> 0]

HasPlayer(E) == "player" \in DOMAIN E.bodies

Put(f, k, v) == [j \in DOMAIN f \cup {k} |-> IF j = k THEN v ELSE f[j]]

Drop(f, k) == [j \in DOMAIN f \ {k} |-> f[j]]

\* Matter.Bodies.rectangle: x is the centre, y the height of the feet (game
\* coordinates), velocity in Matter's orientation (negative y is up).
Rectangle(x, y, w, h) ==
  [x |-> x, y |-> y, vx |-> 0, vy |-> 0, isStatic |-> FALSE, width |-> w, height |-> h]

EnemyKey(id) == "enemy_" \o ToString(id)

createPlayer(E, x, y) ==
  [E EXCEPT !.bodies = Put(E.bodies, "player", Rectangle(x, y, PLAYER_WIDTH, PLAYER_HEIGHT))]

createEnemy(E, id, x, y) ==
  [E EXCEPT !.bodies = Put(E.bodies, EnemyKey(id), Rectangle(x, y, ENEMY_SIZE, ENEMY_SIZE))]

removeEnemy(E, id) ==
  IF EnemyKey(id) \in DOMAIN E.bodies
  THEN [E EXCEPT !.bodies = Drop(E.bodies, EnemyKey(id))]
  ELSE E

createPlatform(E, id) == [E EXCEPT !.platforms = E.platforms \cup {id}]

removePlatform(E, id) ==
  IF id \in E.platforms THEN [E EXCEPT !.platforms = E.platforms \ {id}] ELSE E

addLadder(E, ladder) == [E EXCEPT !.ladders = Append(E.ladders, ladder)]

\* A removal by splice(indexOf(id), 1): an unknown id takes the last ladder away.
removeLadderBySplice(E, id) ==
  IF id \in Ids(E.ladders) \/ E.ladders = <<>>
  THEN [E EXCEPT !.ladders = WithoutId(E.ladders, id)]
  ELSE [E EXCEPT !.ladders = SubSeq(E.ladders, 1, Len(E.ladders) - 1)]

removeLadder(E, id) == [E EXCEPT !.ladders = WithoutId(E.ladders, id)]

\* The platform bodies of the engine, with the bounds createPlatform gave them.
PlatformBodies(E) == {p \in Range(platforms) : p.id \in E.platforms}

getNearbyLadders(E, playerX, playerY, tolerance) ==
  SelectSeq(E.ladders,
            LAMBDA ladder :
              /\ Abs(ladder.worldX - playerX) < tolerance
              /\ playerY >= ladder.bottomHeight - 30
              /\ playerY <= ladder.topHeight + 40)

OverPlatform(body, x, p) ==
  /\ 2 * x + body.width > 2 * p.worldX
  /\ 2 * x - body.width < 2 * (p.worldX + p.width)

isOnPlatform(E, body) ==
  \E p \in PlatformBodies(E) :
    /\ body.y >= p.height - 10
    /\ body.y <= p.height + 20
    /\ OverPlatform(body, body.x, p)

isGrounded(E, body) ==
  IF E.playerClimbing THEN FALSE
  ELSE body.y <= 5 \/ isOnPlatform(E, body)

movePlayer(E, dx, dy) ==
  IF ~HasPlayer(E) THEN E
  ELSE [E EXCEPT !.bodies["player"].vx = dx, !.bodies["player"].vy = @ + dy]

\* The engine after the call and the value returned.
jumpPlayer(E, force) ==
  IF ~HasPlayer(E) THEN [engine |-> E, returned |-> FALSE]
  ELSE IF ~isGrounded(E, E.bodies["player"]) THEN [engine |-> E, returned |-> FALSE]
  ELSE [engine |-> [E EXCEPT !.bodies["player"].vy = -force], returned |-> TRUE]

getPlayerVelocity(E) ==
  IF ~HasPlayer(E) THEN [x |-> 0, y |-> 0]
  ELSE [x |-> E.bodies["player"].vx, y |-> E.bodies["player"].vy]

isPlayerFalling(E) == IF ~HasPlayer(E) THEN FALSE ELSE E.bodies["player"].vy > 10

isPlayerJumping(E) == IF ~HasPlayer(E) THEN FALSE ELSE E.bodies["player"].vy < -10

isPlayerGrounded(E) == IF ~HasPlayer(E) THEN TRUE ELSE isGrounded(E, E.bodies["player"])

setPlayerClimbing(E, climbing) ==
  IF ~HasPlayer(E) THEN E
  ELSE IF climbing
  THEN [E EXCEPT !.bodies["player"].isStatic = TRUE,
                 !.bodies["player"].vx = 0,
                 !.bodies["player"].vy = 0,
                 !.playerClimbing = TRUE]
  ELSE [E EXCEPT !.bodies["player"].isStatic = FALSE, !.playerClimbing = FALSE]

climbPlayer(E, dy) ==
  IF ~HasPlayer(E) THEN E ELSE [E EXCEPT !.bodies["player"].y = @ + dy]

snapToLadder(E, x) ==
  IF ~HasPlayer(E) THEN E ELSE [E EXCEPT !.bodies["player"].x = x]

getPlayerPosition(E) ==
  IF ~HasPlayer(E) THEN [x |-> 0, y |-> 0]
  ELSE [x |-> E.bodies["player"].x, y |-> E.bodies["player"].y]

Toward0(v) == IF v >= 0 THEN v \div 10 ELSE -((-v) \div 10)

SetMax(S) == CHOOSE m \in S : \A n \in S : n <= m

SetMin(S) == CHOOSE m \in S : \A n \in S : m <= n

\* One Matter.Engine.update on one body, with gravity (0, 1.5) over a capped
\* frame: a static body stays; a dynamic body spends its horizontal velocity,
\* gains GRAVITY_STEP downward, and is stopped by the ground, by the surface
\* of a platform under its feet and by the underside of a platform over its head.
StepBody(E, b) ==
  IF b.isStatic THEN b
  ELSE
    LET x1 == b.x + Toward0(b.vx)
        vy1 == b.vy + GRAVITY_STEP
        y1 == b.y - Toward0(vy1)
        over == {p \in PlatformBodies(E) : OverPlatform(b, x1, p)}
        floor == SetMax({0} \cup {p.height : p \in {q \in over : q.height <= b.y}})
        above == {p.height - PLATFORM_THICKNESS :
                    p \in {q \in over : q.height - PLATFORM_THICKNESS >= b.y + b.height}}
    IN IF y1 <= floor
       THEN [b EXCEPT !.x = x1, !.y = floor, !.vx = 0, !.vy = 0]
       ELSE IF above # {} /\ y1 + b.height > SetMin(above)
       THEN [b EXCEPT !.x = x1, !.y = SetMin(above) - b.height, !.vx = 0, !.vy = 0]
       ELSE [b EXCEPT !.x = x1, !.y = y1, !.vx = 0, !.vy = vy1]

update(E) == [E EXCEPT !.bodies = [k \in DOMAIN E.bodies |-> StepBody(E, E.bodies[k])]]

destroy(E) == [E EXCEPT !.bodies = NoBodies, !.platforms = {}, !.ladders = <<>>]

NoJump == [called |-> FALSE, grounded |-> FALSE, accepted |-> FALSE,
           velocityChanged |-> FALSE, cooldownStarted |-> FALSE]

\* Refs at mount, and the engine of the mount effect: new PhysicsEngine() and
\* createPlayer(playerPos.x, playerPos.y).
InitPhysVars ==
  /\ bodies = Put(NoBodies, "player",
                  Rectangle(playerPos.x, playerPos.y, PLAYER_WIDTH, PLAYER_HEIGHT))
  /\ playerClimbing = FALSE
  /\ jumpCooldownRef = 0
  /\ jumpRequestedRef = FALSE
  /\ lastJump = NoJump
  /\ ticks = 0

\* ------------------------------------------------------------ world tick
InitWorld ==
  /\ width \in Widths
  /\ playerPos \in [x : StartXs, y : {0}]
  /\ now = StartNow
  /\ lastCleanupRef = 0
  /\ lastPlatformChunkRef = 0
  /\ idCounter = 0
  /\ platforms = <<>>
  /\ ladders = <<>>
  /\ physPlatforms = {}
  /\ physLadders = <<>>
  /\ newPlatforms = <<>>
  /\ newLadders = <<>>
  /\ InitAIVars
  /\ InitRestVars
  /\ InitPhysVars

\* A cleanup that leaves the engine's platforms alone.
RetirePlatformsInStateOnly(keys, toRemove) == keys

\* toRemove.forEach(p => physics.removePlatform(p.id)) on the keys of
\* physics.platforms.
RetirePlatforms(keys, toRemove) == keys \ toRemove

\* gameUpdate restricted to the world: periodic cleanup, generation, and the
\* new player position handed back by the physics step.
GameUpdateWorld(gap, dx) ==
  LET t == now + gap
      cleanupDue == t - lastCleanupRef > CLEANUP_INTERVAL
      unrenderLimit == scrollOffset - UNRENDER_DISTANCE
      gen == generatePlatformsAndLadders(playerPos.x + width, lastPlatformChunkRef, idCounter)
      keptPlatforms == IF cleanupDue THEN KeepFrom(platforms, unrenderLimit) ELSE platforms
      keptLadders == IF cleanupDue THEN KeepFrom(ladders, unrenderLimit) ELSE ladders
      removedPlatforms == Ids(platforms) \ Ids(keptPlatforms)
      removedLadders == Ids(ladders) \ Ids(keptLadders)
  IN /\ t <= MaxNow
     /\ playerPos.x + dx >= 0
     /\ playerPos.x + dx <= MaxX
     /\ now' = t
     /\ lastCleanupRef' = IF cleanupDue THEN t ELSE lastCleanupRef
     /\ newPlatforms' = gen.newPlatforms
     /\ newLadders' = gen.newLadders
     /\ lastPlatformChunkRef' = gen.lastPlatformChunkRef
     /\ idCounter' = gen.idCounter
     /\ platforms' = keptPlatforms \o gen.newPlatforms
     /\ ladders' = keptLadders \o gen.newLadders
     /\ physPlatforms' = RetirePlatforms(physPlatforms \cup Ids(gen.newPlatforms),
                                        removedPlatforms)
     /\ physLadders' = WithoutIds(physLadders \o gen.newLadders, removedLadders)
     /\ playerPos' = [playerPos EXCEPT !.x = playerPos.x + dx]
     /\ UNCHANGED <<width, aiVars, physVars, restVars>>

NextWorld == \E gap \in FrameGaps, dx \in {-StepX, 0, StepX} : GameUpdateWorld(gap, dx)

SpecWorld == InitWorld /\ [][NextWorld]_vars

\* ------------------------------------------------------------- AI navigator
NoKeys == [left |-> FALSE, right |-> FALSE, up |-> FALSE, down |-> FALSE, attack |-> FALSE]

PatrolKeys == [NoKeys EXCEPT !.right = TRUE]

AttackKeys == [NoKeys EXCEPT !.attack = TRUE]

attackRange == ATTACK_RANGE_DEFAULT

\* Array.prototype.filter(e => !e.dying)
RECURSIVE NotDying(_)
NotDying(es) ==
  IF es = <<>> THEN <<>>
  ELSE IF ~Head(es).dying THEN <<Head(es)>> \o NotDying(Tail(es))
       ELSE NotDying(Tail(es))

WeightedDistance(e, pos) ==
  Abs(e.worldX - pos.x) + Abs(e.platformHeight - pos.y) * VERTICAL_WEIGHT

\* A nearest-enemy search that forgets the vertical weight.
findNearestEnemyUnweighted(es, pos) ==
  LET live == NotDying(es)
      best == {i \in DOMAIN live :
                 \A j \in DOMAIN live :
                   Abs(live[i].worldX - pos.x) + Abs(live[i].platformHeight - pos.y)
                     <= Abs(live[j].worldX - pos.x) + Abs(live[j].platformHeight - pos.y)}
  IN IF live = <<>> THEN <<>>
     ELSE <<live[CHOOSE i \in best : \A j \in best : i <= j]>>

\* filter, stable sort by weighted distance, first element; <<>> stands for null.
findNearestEnemy(es, pos) ==
  LET live == NotDying(es)
      best == {i \in DOMAIN live :
                 \A j \in DOMAIN live :
                   WeightedDistance(live[i], pos) <= WeightedDistance(live[j], pos)}
  IN IF live = <<>> THEN <<>>
     ELSE <<live[CHOOSE i \in best : \A j \in best : i <= j]>>

\* An attack-range test that forgets the climbing guard.
isInAttackRangeWhileClimbing(pos, target, range, climbing) ==
  /\ Abs(target.platformHeight - pos.y) < SAME_LEVEL_DY
  /\ 10 * Abs(target.worldX - pos.x) <= range * 8

isInAttackRange(pos, target, range, climbing) ==
  IF climbing THEN FALSE
  ELSE LET absDx == Abs(target.worldX - pos.x)
           absDy == Abs(target.platformHeight - pos.y)
           isSameLevel == absDy < SAME_LEVEL_DY
       IN isSameLevel /\ 10 * absDx <= range * 8

levelOrder == <<"ground", "level1", "level2", "level3">>

\* levelOrder.indexOf, zero-based
LevelIndex(key) == (CHOOSE i \in DOMAIN levelOrder : levelOrder[i] = key) - 1

\* Level whose height is closest to playerY; the lowest one wins a tie.
getPlayerCurrentLevel(playerY) ==
  LET dist(i) == Abs(playerY - PLATFORM_LEVELS[levelOrder[i]])
      best == {i \in DOMAIN levelOrder : \A j \in DOMAIN levelOrder : dist(i) <= dist(j)}
  IN levelOrder[CHOOSE i \in best : \A j \in best : i <= j]

RECURSIVE SelectLadders(_, _, _, _)
SelectLadders(ls, pos, target, direct) ==
  IF ls = <<>> THEN <<>>
  ELSE
    LET l == Head(ls)
        needToGoUp == target.platformHeight > pos.y
        isAccessible == pos.y >= l.bottomHeight - 10 /\ pos.y <= l.topHeight + 10
        isDirect ==
          IF needToGoUp
          THEN IF target.platformId # null THEN l.topPlatformId = target.platformId
               ELSE IF target.platformLevel = "ground" THEN FALSE
               ELSE l.topLevel = target.platformLevel
          ELSE IF target.platformId # null THEN l.bottomPlatformId = target.platformId
               ELSE IF target.platformLevel = "ground" THEN l.bottomLevel = "ground"
               ELSE l.bottomLevel = target.platformLevel
        playerLevelIndex == LevelIndex(getPlayerCurrentLevel(pos.y))
        targetLevelIndex == LevelIndex(target.platformLevel)
        isProgress ==
          IF needToGoUp
          THEN LevelIndex(l.topLevel) > playerLevelIndex
               /\ LevelIndex(l.topLevel) <= targetLevelIndex
          ELSE LevelIndex(l.bottomLevel) < playerLevelIndex
               /\ LevelIndex(l.bottomLevel) >= targetLevelIndex
        keep == isAccessible /\ (IF direct THEN isDirect ELSE isProgress)
    IN (IF keep THEN <<l>> ELSE <<>>) \o SelectLadders(Tail(ls), pos, target, direct)

\* First element of the stable sort by horizontal distance; <<>> stands for null.
ClosestLadder(ls, pos) ==
  LET best == {i \in DOMAIN ls :
                 \A j \in DOMAIN ls : Abs(ls[i].worldX - pos.x) <= Abs(ls[j].worldX - pos.x)}
  IN IF ls = <<>> THEN <<>> ELSE <<ls[CHOOSE i \in best : \A j \in best : i <= j]>>

\* A search that takes a progress ladder even when a direct one exists.
findLadderToTargetProgressFirst(pos, target, ls) ==
  LET directLadders == SelectLadders(ls, pos, target, TRUE)
      progressLadders == SelectLadders(ls, pos, target, FALSE)
  IN IF progressLadders # <<>> THEN ClosestLadder(progressLadders, pos)
     ELSE ClosestLadder(directLadders, pos)

findLadderToTarget(pos, target, ls) ==
  LET directLadders == SelectLadders(ls, pos, target, TRUE)
      progressLadders == SelectLadders(ls, pos, target, FALSE)
  IN IF directLadders # <<>> THEN ClosestLadder(directLadders, pos)
     ELSE ClosestLadder(progressLadders, pos)

computeNavigationKeys(pos, target, climbing, ls) ==
  LET dx == target.worldX - pos.x
      dy == target.platformHeight - pos.y
      absDy == Abs(dy)
      isSameLevel == IF climbing THEN absDy < 5 /\ pos.y >= target.platformHeight - 2
                     ELSE absDy < SAME_LEVEL_DY
      towards(d) == IF d > 0 THEN [NoKeys EXCEPT !.right = TRUE]
                    ELSE [NoKeys EXCEPT !.left = TRUE]
      vertical == IF dy > 0 THEN [NoKeys EXCEPT !.up = TRUE]
                  ELSE [NoKeys EXCEPT !.down = TRUE]
      usefulLadder == findLadderToTarget(pos, target, ls)
  IN IF isSameLevel THEN towards(dx)
     ELSE IF climbing THEN vertical
     ELSE IF usefulLadder # <<>>
          THEN LET ladderDx == usefulLadder[1].worldX - pos.x
               IN IF Abs(ladderDx) < LADDER_REACH THEN vertical ELSE towards(ladderDx)
          ELSE towards(dx)

\* A lock lookup that forgets the dying flag.
LockedTargetIgnoringDying(prevState, es) ==
  IF prevState.targetId # null
  THEN LET hit == {i \in DOMAIN es : es[i].id = prevState.targetId}
       IN IF hit = {} THEN <<>> ELSE <<es[CHOOSE i \in hit : \A j \in hit : i <= j]>>
  ELSE <<>>

\* targetId ? enemies.find(e => e.id === targetId && !e.dying) : null
LockedTarget(prevState, es) ==
  IF prevState.targetId # null
  THEN LET hit == {i \in DOMAIN es : es[i].id = prevState.targetId /\ ~es[i].dying}
       IN IF hit = {} THEN <<>> ELSE <<es[CHOOSE i \in hit : \A j \in hit : i <= j]>>
  ELSE <<>>

PatrolResult == [state |-> AI_STATE.MOVING_RIGHT, targetId |-> null, keys |-> PatrolKeys]

\* An ATTACKING case that drops the lock when the target leaves the range.
AttackingCaseDropsLock(lockedTarget, pos, range, climbing, ls) ==
  IF lockedTarget = <<>> THEN PatrolResult
  ELSE IF ~isInAttackRange(pos, lockedTarget[1], range, climbing)
  THEN PatrolResult
  ELSE [state |-> AI_STATE.ATTACKING_ENEMY, targetId |-> lockedTarget[1].id,
        keys |-> AttackKeys]

AttackingCase(lockedTarget, pos, range, climbing, ls) ==
  IF lockedTarget = <<>> THEN PatrolResult
  ELSE IF ~isInAttackRange(pos, lockedTarget[1], range, climbing)
  THEN [state |-> AI_STATE.MOVING_TO_ENEMY, targetId |-> lockedTarget[1].id,
        keys |-> computeNavigationKeys(pos, lockedTarget[1], climbing, ls)]
  ELSE [state |-> AI_STATE.ATTACKING_ENEMY, targetId |-> lockedTarget[1].id,
        keys |-> AttackKeys]

\* A state machine that, while seeking, turns to whichever enemy is nearest.
computeAIStateRetargets(prevState, es, pos, range, climbing, ls) ==
  LET lockedTarget == IF prevState.state = AI_STATE.MOVING_TO_ENEMY
                      THEN findNearestEnemy(es, pos)
                      ELSE LockedTarget(prevState, es)
  IN CASE prevState.state = AI_STATE.MOVING_RIGHT ->
            LET nearestEnemy == findNearestEnemy(es, pos)
            IN IF nearestEnemy # <<>>
               THEN [state |-> AI_STATE.MOVING_TO_ENEMY, targetId |-> nearestEnemy[1].id,
                     keys |-> computeNavigationKeys(pos, nearestEnemy[1], climbing, ls)]
               ELSE PatrolResult
       [] prevState.state = AI_STATE.MOVING_TO_ENEMY ->
            IF lockedTarget = <<>> THEN PatrolResult
            ELSE IF isInAttackRange(pos, lockedTarget[1], range, climbing)
            THEN [state |-> AI_STATE.ATTACKING_ENEMY, targetId |-> lockedTarget[1].id,
                  keys |-> AttackKeys]
            ELSE [state |-> AI_STATE.MOVING_TO_ENEMY, targetId |-> lockedTarget[1].id,
                  keys |-> computeNavigationKeys(pos, lockedTarget[1], climbing, ls)]
       [] prevState.state = AI_STATE.ATTACKING_ENEMY ->
            AttackingCase(lockedTarget, pos, range, climbing, ls)
       [] OTHER -> PatrolResult

computeAIState(prevState, es, pos, range, climbing, ls) ==
  LET lockedTarget == LockedTarget(prevState, es)
  IN CASE prevState.state = AI_STATE.MOVING_RIGHT ->
            LET nearestEnemy == findNearestEnemy(es, pos)
            IN IF nearestEnemy # <<>>
               THEN [state |-> AI_STATE.MOVING_TO_ENEMY, targetId |-> nearestEnemy[1].id,
                     keys |-> computeNavigationKeys(pos, nearestEnemy[1], climbing, ls)]
               ELSE PatrolResult
       [] prevState.state = AI_STATE.MOVING_TO_ENEMY ->
            IF lockedTarget = <<>> THEN PatrolResult
            ELSE IF isInAttackRange(pos, lockedTarget[1], range, climbing)
            THEN [state |-> AI_STATE.ATTACKING_ENEMY, targetId |-> lockedTarget[1].id,
                  keys |-> AttackKeys]
            ELSE [state |-> AI_STATE.MOVING_TO_ENEMY, targetId |-> lockedTarget[1].id,
                  keys |-> computeNavigationKeys(pos, lockedTarget[1], climbing, ls)]
       [] prevState.state = AI_STATE.ATTACKING_ENEMY ->
            AttackingCase(lockedTarget, pos, range, climbing, ls)
       [] OTHER -> PatrolResult

\* ------------------------------------------------------- auto-combat tick
\* A disabled branch that leaves the stored AI state alone.
DisabledBranchKeepsState ==
  [aiStateRef |-> aiStateRef,
   wasAutoAttackEnabledRef |-> FALSE,
   currentKeys |-> keysPressed]

\* Auto-attack disabled: the stored AI state is reset.
DisabledBranch ==
  [aiStateRef |-> IF aiStateRef.state # AI_STATE.MOVING_RIGHT \/ aiStateRef.targetId # null
                  THEN [state |-> AI_STATE.MOVING_RIGHT, targetId |-> null]
                  ELSE aiStateRef,
   wasAutoAttackEnabledRef |-> FALSE,
   currentKeys |-> keysPressed]

\* An enabled branch that keeps the old target when the decision carries none.
EnabledBranchKeepsTarget ==
  LET aiResult == computeAIState(aiStateRef, enemies, playerPos, attackRange,
                                 isClimbing, ladders)
  IN [aiStateRef |-> [state |-> aiResult.state,
                      targetId |-> IF aiResult.targetId # null THEN aiResult.targetId
                                   ELSE aiStateRef.targetId],
      wasAutoAttackEnabledRef |-> TRUE,
      currentKeys |-> [keysPressed EXCEPT !.left = aiResult.keys.left,
                                          !.right = aiResult.keys.right,
                                          !.up = aiResult.keys.up,
                                          !.down = aiResult.keys.down,
                                          !.attack = aiResult.keys.attack]]

\* Auto-attack enabled: computeAIState decides, its keys override the snapshot.
EnabledBranch ==
  LET aiResult == computeAIState(aiStateRef, enemies, playerPos, attackRange,
                                 isClimbing, ladders)
  IN [aiStateRef |-> [state |-> aiResult.state, targetId |-> aiResult.targetId],
      wasAutoAttackEnabledRef |-> TRUE,
      currentKeys |-> [keysPressed EXCEPT !.left = aiResult.keys.left,
                                          !.right = aiResult.keys.right,
                                          !.up = aiResult.keys.up,
                                          !.down = aiResult.keys.down,
                                          !.attack = aiResult.keys.attack]]

\* The auto-attack branch of gameUpdate: new aiStateRef, wasAutoAttackEnabledRef
\* and the tick's currentKeys.
AutoAttackBranch == IF autoAttackEnabled THEN EnabledBranch ELSE DisabledBranch

\* World as the first tick generates it for a player restored at x = 1446; at the
\* positions of PlayerPoses no later tick generates or retires anything.
AIWorld == generatePlatformsAndLadders(1446 + 800, 0, 0)

InitAI ==
  LET gen == AIWorld
  IN /\ width = 800
     /\ playerPos = [x |-> 1446, y |-> 0]
     /\ now = StartNow
     /\ lastCleanupRef = StartNow
     /\ lastPlatformChunkRef = gen.lastPlatformChunkRef
     /\ idCounter = gen.idCounter
     /\ platforms = gen.newPlatforms
     /\ ladders = gen.newLadders
     /\ physPlatforms = Ids(gen.newPlatforms)
     /\ physLadders = gen.newLadders
     /\ newPlatforms = <<>>
     /\ newLadders = <<>>
     /\ InitAIVars
     /\ InitRestVars
     /\ InitPhysVars

\* gameUpdate restricted to the auto-combat decision.
GameUpdateAI ==
  LET r == AutoAttackBranch
  IN /\ aiStateRef' = r.aiStateRef
     /\ wasAutoAttackEnabledRef' = r.wasAutoAttackEnabledRef
     /\ currentKeys' = r.currentKeys
     /\ aiPrev' = aiStateRef
     /\ UNCHANGED <<worldVars, autoAttackEnabled, enemies, isClimbing, keysPressed, physVars, restVars>>

\* R key / HUD button: setAutoAttackEnabled(prev => !prev)
ToggleAutoAttack ==
  /\ autoAttackEnabled' = ~autoAttackEnabled
  /\ UNCHANGED <<worldVars, aiStateRef, wasAutoAttackEnabledRef, aiPrev, enemies,
                 isClimbing, keysPressed, currentKeys, physVars, restVars>>

\* Platform an enemy of the given level stands on at x (null on ground).
PlatformIdAt(x, level) ==
  IF level = "ground" THEN {null}
  ELSE {q.id : q \in {q \in Range(platforms) :
                        q.level = level /\ x >= q.worldX + 20 /\ x <= q.worldX + q.width - 20}}

\* spawnEnemy: a new enemy at the end of the array.
SpawnEnemyAt(x, level) ==
  /\ Len(enemies) < MAX_ENEMIES
  /\ Len(enemies) < MaxEnemies
  /\ idCounter < AIWorld.idCounter + MaxSpawns
  /\ \E pid \in PlatformIdAt(x, level) :
       enemies' = Append(enemies,
                    [id |-> idCounter + 1, worldX |-> x,
                     platformHeight |-> PLATFORM_LEVELS[level], platformLevel |-> level,
                     platformId |-> pid, health |-> 30, dying |-> FALSE])
  /\ idCounter' = idCounter + 1
  /\ UNCHANGED <<width, playerPos, now, lastCleanupRef, lastPlatformChunkRef, platforms,
                 ladders, physPlatforms, physLadders, newPlatforms, newLadders,
                 autoAttackEnabled, aiStateRef, wasAutoAttackEnabledRef, aiPrev,
                 isClimbing, keysPressed, currentKeys, physVars, restVars>>

\* Enemy movement of a tick: a live enemy is displaced along its level.
EnemyMoved(i, x) ==
  /\ i \in DOMAIN enemies
  /\ ~enemies[i].dying
  /\ x # enemies[i].worldX
  /\ [x |-> x, level |-> enemies[i].platformLevel] \in EnemySpots
  /\ enemies' = [enemies EXCEPT ![i].worldX = x]
  /\ UNCHANGED <<worldVars, autoAttackEnabled, aiStateRef, wasAutoAttackEnabledRef, aiPrev,
                 isClimbing, keysPressed, currentKeys, physVars, restVars>>

\* attackEnemy, lethal hit: the enemy stays in the array, marked dying.
EnemyLethalHit(i) ==
  /\ i \in DOMAIN enemies
  /\ ~enemies[i].dying
  /\ enemies' = [enemies EXCEPT ![i].health = 0, ![i].dying = TRUE]
  /\ UNCHANGED <<worldVars, autoAttackEnabled, aiStateRef, wasAutoAttackEnabledRef, aiPrev,
                 isClimbing, keysPressed, currentKeys, physVars, restVars>>

\* Removal timer of a dying enemy, or the distance filter of the enemy update.
EnemyRemoved(i) ==
  /\ i \in DOMAIN enemies
  /\ enemies' = WithoutId(enemies, enemies[i].id)
  /\ UNCHANGED <<worldVars, autoAttackEnabled, aiStateRef, wasAutoAttackEnabledRef, aiPrev,
                 isClimbing, keysPressed, currentKeys, physVars, restVars>>

\* Position and climbing flag a tick hands to the next render.
PlayerMoved(x, y, climbing) ==
  /\ <<x, y, climbing>> # <<playerPos.x, playerPos.y, isClimbing>>
  /\ climbing => (isClimbing \/ currentKeys.up \/ currentKeys.down)
  /\ playerPos' = [x |-> x, y |-> y]
  /\ isClimbing' = climbing
  /\ UNCHANGED <<width, now, lastCleanupRef, lastPlatformChunkRef, idCounter, platforms,
                 ladders, physPlatforms, physLadders, newPlatforms, newLadders,
                 autoAttackEnabled, aiStateRef, wasAutoAttackEnabledRef, aiPrev, enemies,
                 keysPressed, currentKeys, physVars, restVars>>

NextAI ==
  \/ GameUpdateAI
  \/ ToggleAutoAttack
  \/ \E spot \in EnemySpots : SpawnEnemyAt(spot.x, spot.level)
  \/ \E i \in 1..MaxEnemies, spot \in EnemySpots : EnemyMoved(i, spot.x)
  \/ \E i \in 1..MaxEnemies : EnemyLethalHit(i)
  \/ \E i \in 1..MaxEnemies : EnemyRemoved(i)
  \/ \E q \in PlayerPoses : PlayerMoved(q.x, q.y, q.climbing)

SpecAI == InitAI /\ [][NextAI]_vars

\* ------------------------------------------------- movement part of the tick
\* Every phase takes and gives [engine, climbing]: the engine after the calls
\* made so far and the value the queued setIsClimbing calls leave for the next
\* render. isClimbing itself is the value of the render the closure was made in.

\* Jump handling: cooldown countdown, request consumption, the two jump cases.
JumpHandling(s, keys, grounded) ==
  LET cooldown == IF jumpCooldownRef > 0 THEN jumpCooldownRef - DELTA_CAP
                  ELSE jumpCooldownRef
      wantsToJump == jumpRequestedRef \/ keys.jump
      Jump(E, force, climbing) ==
        LET j == jumpPlayer(E, force)
        IN [engine |-> j.engine,
            climbing |-> climbing,
            jumpCooldownRef |-> JUMP_COOLDOWN,
            jumpRequestedRef |-> FALSE,
            lastJump |-> [called |-> TRUE,
                          grounded |-> HasPlayer(E) /\ isGrounded(E, E.bodies["player"]),
                          accepted |-> j.returned,
                          velocityChanged |-> j.engine.bodies # E.bodies,
                          cooldownStarted |-> TRUE]]
  IN IF wantsToJump /\ cooldown <= 0
     THEN IF isClimbing
          THEN Jump(setPlayerClimbing(s.engine, FALSE), (JUMP_FORCE * 8) \div 10, FALSE)
          ELSE IF grounded
          THEN Jump(s.engine, JUMP_FORCE, s.climbing)
          ELSE [engine |-> s.engine, climbing |-> s.climbing,
                jumpCooldownRef |-> cooldown, jumpRequestedRef |-> FALSE,
                lastJump |-> NoJump]
     ELSE [engine |-> s.engine, climbing |-> s.climbing,
           jumpCooldownRef |-> cooldown, jumpRequestedRef |-> jumpRequestedRef,
           lastJump |-> NoJump]

\* A dismount that clears the game's flag and leaves the engine climbing.
SidewaysFlagOnly(s, keys, nearbyLadders, pressed, sign) ==
  IF ~pressed THEN s
  ELSE
    LET dismount == isClimbing /\ nearbyLadders # <<>> /\ ~keys.up /\ ~keys.down
    IN [engine |-> movePlayer(s.engine, sign * ((MOVE_SPEED * DELTA_CAP) \div 100000), 0),
        climbing |-> IF dismount THEN FALSE ELSE s.climbing]

\* One horizontal key: dismount when on a ladder without up/down, then movePlayer.
Sideways(s, keys, nearbyLadders, pressed, sign) ==
  IF ~pressed THEN s
  ELSE
    LET dismount == isClimbing /\ nearbyLadders # <<>> /\ ~keys.up /\ ~keys.down
        e1 == IF dismount THEN setPlayerClimbing(s.engine, FALSE) ELSE s.engine
    IN [engine |-> movePlayer(e1, sign * ((MOVE_SPEED * DELTA_CAP) \div 100000), 0),
        climbing |-> IF dismount THEN FALSE ELSE s.climbing]

HorizontalMovement(s, keys, nearbyLadders) ==
  Sideways(Sideways(s, keys, nearbyLadders, keys.left, -1),
           keys, nearbyLadders, keys.right, 1)

\* nearbyLadders.find(test) over the ladders passing the test, as a sequence of
\* at most one ladder.
FindFirst(hits) == IF hits = <<>> THEN <<>> ELSE <<hits[1]>>

\* Climbing: ladder choice, entry, the move along the ladder, auto-dismount.
Climbing(s, keys, nearbyLadders, currentPlayerY) ==
  IF ~((keys.up \/ keys.down) /\ ~keys.jump) THEN s
  ELSE
    LET found ==
          IF nearbyLadders # <<>> /\ ~isPlayerJumping(s.engine)
          THEN IF keys.up
               THEN FindFirst(SelectSeq(nearbyLadders,
                                        LAMBDA l : currentPlayerY < l.topHeight - 1))
               ELSE FindFirst(SelectSeq(nearbyLadders,
                                        LAMBDA l : currentPlayerY > l.bottomHeight + 1))
          ELSE <<>>
        targetLadder ==
          IF found = <<>> /\ isClimbing /\ nearbyLadders # <<>>
                          /\ ~isPlayerJumping(s.engine)
          THEN <<nearbyLadders[1]>>
          ELSE found
    IN IF targetLadder = <<>> \/ isPlayerJumping(s.engine) THEN s
       ELSE
         LET activeLadder == targetLadder[1]
             atTop == currentPlayerY >= activeLadder.topHeight - 2
             atBottom == currentPlayerY <= activeLadder.bottomHeight + 2
             validEntry == (keys.up /\ ~atTop) \/ (keys.down /\ ~atBottom)
             enter == ~isClimbing /\ validEntry
             canClimb == isClimbing \/ validEntry
             s1 == IF enter
                   THEN [engine |-> snapToLadder(setPlayerClimbing(s.engine, TRUE),
                                                 activeLadder.worldX),
                         climbing |-> TRUE]
                   ELSE s
             climbStep == (CLIMB_SPEED * DELTA_CAP) \div 1000000
             newY == IF keys.up
                     THEN Min(activeLadder.topHeight, currentPlayerY + climbStep)
                     ELSE Max(activeLadder.bottomHeight, currentPlayerY - climbStep)
             atEnd == IF keys.up THEN newY >= activeLadder.topHeight - 1
                      ELSE newY <= activeLadder.bottomHeight + 1
             e2 == climbPlayer(s1.engine, newY - currentPlayerY)
         IN IF ~canClimb THEN s1
            ELSE IF atEnd
            THEN [engine |-> setPlayerClimbing(e2, FALSE), climbing |-> FALSE]
            ELSE [engine |-> e2, climbing |-> s1.climbing]

\* Reset climbing if landed on ground.
ResetClimbing(s, grounded, nearbyLadders) ==
  IF isClimbing /\ grounded /\ nearbyLadders = <<>>
  THEN [engine |-> setPlayerClimbing(s.engine, FALSE), climbing |-> FALSE]
  ELSE s

\* Mounted game over the world of AIWorld, the player restored at a start position.
InitMove ==
  LET gen == AIWorld
  IN /\ width = 800
     /\ playerPos \in MoveStarts
     /\ now = StartNow
     /\ lastCleanupRef = StartNow
     /\ lastPlatformChunkRef = gen.lastPlatformChunkRef
     /\ idCounter = gen.idCounter
     /\ platforms = gen.newPlatforms
     /\ ladders = gen.newLadders
     /\ physPlatforms = Ids(gen.newPlatforms)
     /\ physLadders = gen.newLadders
     /\ newPlatforms = <<>>
     /\ newLadders = <<>>
     /\ InitAIVars
     /\ InitRestVars
     /\ InitPhysVars

\* gameUpdate from the jump handling to setPlayerPos, r being what the
\* auto-attack branch decided: jump, horizontal movement, climbing, physics step.
Movement(r) ==
  LET physics == Engine
      currentPos == getPlayerPosition(physics)
      currentPlayerY == Max(0, currentPos.y)
      nearbyLadders == getNearbyLadders(physics, currentPos.x, currentPlayerY, LADDER_TOLERANCE)
      keys == r.currentKeys
      grounded == isPlayerGrounded(physics)
      j == JumpHandling([engine |-> physics, climbing |-> isClimbing], keys, grounded)
      h == HorizontalMovement([engine |-> j.engine, climbing |-> j.climbing],
                              keys, nearbyLadders)
      c == Climbing(h, keys, nearbyLadders, currentPlayerY)
      l == ResetClimbing(c, grounded, nearbyLadders)
      stepped == update(l.engine)
      pos == getPlayerPosition(stepped)
  IN /\ pos.x >= MoveMinX
     /\ pos.x <= MoveMaxX
     /\ ticks' = ticks + 1
     /\ aiStateRef' = r.aiStateRef
     /\ wasAutoAttackEnabledRef' = r.wasAutoAttackEnabledRef
     /\ currentKeys' = keys
     /\ aiPrev' = aiStateRef
     /\ jumpCooldownRef' = j.jumpCooldownRef
     /\ jumpRequestedRef' = j.jumpRequestedRef
     /\ lastJump' = j.lastJump
     /\ isClimbing' = l.climbing
     /\ bodies' = stepped.bodies
     /\ playerClimbing' = stepped.playerClimbing
     /\ playerPos' = [x |-> pos.x, y |-> Max(0, pos.y)]
     /\ UNCHANGED <<width, now, lastCleanupRef, lastPlatformChunkRef, idCounter, platforms,
                    ladders, physPlatforms, physLadders, newPlatforms, newLadders,
                    autoAttackEnabled, enemies, keysPressed, restVars>>

\* gameUpdate from the position read to setPlayerPos.
GameUpdateMove ==
  /\ ticks < MaxTicks
  /\ Movement(AutoAttackBranch)

\* handleKeyDown for a movement key; the space bar also leaves a jump request.
KeyDown(k) ==
  /\ keysPressed' = [keysPressed EXCEPT ![k] = TRUE]
  /\ jumpRequestedRef' = IF k = "jump" THEN TRUE ELSE jumpRequestedRef
  /\ UNCHANGED <<worldVars, autoAttackEnabled, aiStateRef, wasAutoAttackEnabledRef, aiPrev,
                 enemies, isClimbing, currentKeys, bodies, playerClimbing,
                 jumpCooldownRef, lastJump, ticks, restVars>>

\* handleKeyUp
KeyUp(k) ==
  /\ keysPressed' = [keysPressed EXCEPT ![k] = FALSE]
  /\ UNCHANGED <<worldVars, autoAttackEnabled, aiStateRef, wasAutoAttackEnabledRef, aiPrev,
                 enemies, isClimbing, currentKeys, physVars, restVars>>

NextMove ==
  \/ GameUpdateMove
  \/ \E k \in MoveKeys : KeyDown(k)
  \/ \E k \in MoveKeys : KeyUp(k)

SpecMove == InitMove /\ [][NextMove]_vars

\* --------------------------------------------------- PhysicsEngine as an API
\* A fresh engine; the platform and ladder records of AIWorld are at hand for
\* createPlatform.
InitEngine ==
  LET gen == AIWorld
  IN /\ width = 800
     /\ playerPos = [x |-> 1446, y |-> 0]
     /\ now = StartNow
     /\ lastCleanupRef = StartNow
     /\ lastPlatformChunkRef = gen.lastPlatformChunkRef
     /\ idCounter = gen.idCounter
     /\ platforms = gen.newPlatforms
     /\ ladders = gen.newLadders
     /\ physPlatforms = {}
     /\ physLadders = <<>>
     /\ newPlatforms = <<>>
     /\ newLadders = <<>>
     /\ InitAIVars
     /\ InitRestVars
     /\ bodies = NoBodies
     /\ playerClimbing = FALSE
     /\ jumpCooldownRef = 0
     /\ jumpRequestedRef = FALSE
     /\ lastJump = NoJump
     /\ ticks = 0

\* Everything outside the engine, and the frame counter.
clientVars == <<width, playerPos, now, lastCleanupRef, lastPlatformChunkRef, idCounter,
                platforms, ladders, newPlatforms, newLadders, aiVars,
                jumpCooldownRef, jumpRequestedRef, lastJump, ticks, restVars>>

CreatePlayer(x, y) ==
  LET E == createPlayer(Engine, x, y)
  IN /\ bodies' = E.bodies
     /\ playerClimbing' = E.playerClimbing
     /\ physPlatforms' = E.platforms
     /\ physLadders' = E.ladders
     /\ UNCHANGED clientVars

CreateEnemy(id, x, y) ==
  LET E == createEnemy(Engine, id, x, y)
  IN /\ bodies' = E.bodies
     /\ playerClimbing' = E.playerClimbing
     /\ physPlatforms' = E.platforms
     /\ physLadders' = E.ladders
     /\ UNCHANGED clientVars

RemoveEnemy(id) ==
  LET E == removeEnemy(Engine, id)
  IN /\ bodies' = E.bodies
     /\ playerClimbing' = E.playerClimbing
     /\ physPlatforms' = E.platforms
     /\ physLadders' = E.ladders
     /\ UNCHANGED clientVars

CreatePlatform(id) ==
  LET E == createPlatform(Engine, id)
  IN /\ bodies' = E.bodies
     /\ playerClimbing' = E.playerClimbing
     /\ physPlatforms' = E.platforms
     /\ physLadders' = E.ladders
     /\ UNCHANGED clientVars

MovePlayer(dx, dy) ==
  LET E == movePlayer(Engine, dx, dy)
  IN /\ bodies' = E.bodies
     /\ playerClimbing' = E.playerClimbing
     /\ physPlatforms' = E.platforms
     /\ physLadders' = E.ladders
     /\ UNCHANGED clientVars

JumpPlayer(force) ==
  LET E == jumpPlayer(Engine, force).engine
  IN /\ bodies' = E.bodies
     /\ playerClimbing' = E.playerClimbing
     /\ physPlatforms' = E.platforms
     /\ physLadders' = E.ladders
     /\ UNCHANGED clientVars

SetPlayerClimbing(climbing) ==
  LET E == setPlayerClimbing(Engine, climbing)
  IN /\ bodies' = E.bodies
     /\ playerClimbing' = E.playerClimbing
     /\ physPlatforms' = E.platforms
     /\ physLadders' = E.ladders
     /\ UNCHANGED clientVars

ClimbPlayer(dy) ==
  LET E == climbPlayer(Engine, dy)
  IN /\ HasPlayer(E) => (E.bodies["player"].y >= 0 /\ E.bodies["player"].y <= 180)
     /\ bodies' = E.bodies
     /\ playerClimbing' = E.playerClimbing
     /\ physPlatforms' = E.platforms
     /\ physLadders' = E.ladders
     /\ UNCHANGED clientVars

SnapToLadder(x) ==
  LET E == snapToLadder(Engine, x)
  IN /\ bodies' = E.bodies
     /\ playerClimbing' = E.playerClimbing
     /\ physPlatforms' = E.platforms
     /\ physLadders' = E.ladders
     /\ UNCHANGED clientVars

Update ==
  LET E == update(Engine)
  IN /\ ticks < MaxSteps
     /\ HasPlayer(E) => (E.bodies["player"].x >= MoveMinX /\ E.bodies["player"].x <= MoveMaxX)
     /\ ticks' = ticks + 1
     /\ bodies' = E.bodies
     /\ UNCHANGED <<worldVars, aiVars, playerClimbing, jumpCooldownRef, jumpRequestedRef,
                    lastJump, restVars>>

Destroy ==
  LET E == destroy(Engine)
  IN /\ bodies' = E.bodies
     /\ playerClimbing' = E.playerClimbing
     /\ physPlatforms' = E.platforms
     /\ physLadders' = E.ladders
     /\ UNCHANGED clientVars

RemovePlatform(id) ==
  LET E == removePlatform(Engine, id)
  IN /\ bodies' = E.bodies
     /\ playerClimbing' = E.playerClimbing
     /\ physPlatforms' = E.platforms
     /\ physLadders' = E.ladders
     /\ UNCHANGED clientVars

\* addLadder with a ladder record of the generator, each id once.
AddLadder(ladder) ==
  LET E == addLadder(Engine, ladder)
  IN /\ ladder.id \notin Ids(physLadders)
     /\ bodies' = E.bodies
     /\ playerClimbing' = E.playerClimbing
     /\ physPlatforms' = E.platforms
     /\ physLadders' = E.ladders
     /\ UNCHANGED clientVars

RemoveLadder(id) ==
  LET E == removeLadder(Engine, id)
  IN /\ bodies' = E.bodies
     /\ playerClimbing' = E.playerClimbing
     /\ physPlatforms' = E.platforms
     /\ physLadders' = E.ladders
     /\ UNCHANGED clientVars

NextEngine ==
  \/ \E q \in BodySpots : CreatePlayer(q.x, q.y)
  \/ \E id \in 1..MaxBodies, q \in EnemyBodySpots : CreateEnemy(id, q.x, q.y)
  \/ \E id \in 1..MaxBodies : RemoveEnemy(id)
  \/ \E id \in EnginePlatformIds : CreatePlatform(id)
  \/ \E dx \in EngineMoves : MovePlayer(dx, 0)
  \/ JumpPlayer(JUMP_FORCE)
  \/ \E climbing \in BOOLEAN : SetPlayerClimbing(climbing)
  \/ \E dy \in {-90, 90} : ClimbPlayer(dy)
  \/ SnapToLadder(1446)
  \/ Update
  \/ Destroy

SpecEngine == InitEngine /\ [][NextEngine]_vars

\* The engine's platform map and ladder list under creation, removal and destroy.
NextRegistry ==
  \/ \E q \in BodySpots : CreatePlayer(q.x, q.y)
  \/ \E id \in RegistryPlatformIds : CreatePlatform(id)
  \/ \E id \in RegistryRemoveIds : RemovePlatform(id)
  \/ \E ladder \in {l \in Range(ladders) : l.id \in RegistryLadderIds} : AddLadder(ladder)
  \/ \E id \in RegistryRemoveIds : RemoveLadder(id)
  \/ Destroy

SpecRegistry == InitEngine /\ [][NextRegistry]_vars

\* ------------------------------------------------------------------ combat
\* ENEMY_TYPES.slime, with the health of distanceProgress 1:
\* floor(15 * (1 + 1 * 0.2)).
Slime == [baseHealth |-> 15, health |-> 18, xpReward |-> 10, goldReward |-> 5, speed |-> 20]

\* xpForLevel: Math.floor(100 * Math.pow(1.5, level - 1))
xpForLevel(level) == (100 * 3^(level - 1)) \div 2^(level - 1)

\* Math.floor(100 * Math.pow(1.1, level - 1))
MaxHealthAt(level) == (100 * 11^(level - 1)) \div 10^(level - 1)

\* Math.floor(10 * Math.pow(1.08, level - 1))
BaseDamageAt(level) == (10 * 108^(level - 1)) \div 100^(level - 1)

\* The while loop of the reward: one level per pass, the old xpToNext taken
\* off before the new one is computed.
RECURSIVE LevelLoop(_)
LevelLoop(c) ==
  IF c.xp >= c.xpToNext
  THEN LevelLoop([c EXCEPT !.xp = c.xp - c.xpToNext,
                           !.level = c.level + 1,
                           !.xpToNext = xpForLevel(c.level + 1),
                           !.maxHealth = MaxHealthAt(c.level + 1),
                           !.baseDamage = BaseDamageAt(c.level + 1)])
  ELSE c

\* Reward without the refill of health.
RewardKeepsHealth(prev, xpReward, goldReward) ==
  LET c == LevelLoop([prev EXCEPT !.xp = prev.xp + xpReward])
  IN [c EXCEPT !.gold = prev.gold + goldReward]

\* setCharacter(prev => ...) of the death reward.
Reward(prev, xpReward, goldReward) ==
  LET c == LevelLoop([prev EXCEPT !.xp = prev.xp + xpReward])
  IN [c EXCEPT !.health = IF c.level > prev.level THEN c.maxHealth ELSE prev.health,
               !.gold = prev.gold + goldReward]

horizontalDist(e) ==
  IF facingRight THEN e.worldX - playerPos.x ELSE playerPos.x - e.worldX

\* The filter with the far edge of the reach left out.
InRangeOpenReach(e) ==
  /\ ~e.dying
  /\ ~(horizontalDist(e) >= attackRange \/ horizontalDist(e) < -50)
  /\ ~(Abs(e.platformHeight - playerPos.y) > 50)

\* prev.filter(e => ...) of attackEnemy, as a test on one enemy.
InRange(e) ==
  /\ ~e.dying
  /\ ~(horizontalDist(e) > attackRange \/ horizontalDist(e) < -50)
  /\ ~(Abs(e.platformHeight - playerPos.y) > 50)

\* Math.floor(character.baseDamage * (isCrit ? character.critMultiplier : 1))
Damage(isCrit) == character.baseDamage * (IF isCrit THEN CRIT_MULTIPLIER ELSE 1)

\* prev.map(enemy => ...) of attackEnemy for an enemy that was hit.
Struck(enemy, isCrit) ==
  LET newHealth == enemy.health - Damage(isCrit)
  IN IF newHealth <= 0
     THEN [enemy EXCEPT !.health = 0, !.hit = TRUE, !.dying = TRUE]
     ELSE [enemy EXCEPT !.health = newHealth, !.hit = TRUE]

\* The updater of attackEnemy; crits[i] is the Math.random() draw of prev[i].
Swing(prev, crits) ==
  [i \in DOMAIN prev |-> IF InRange(prev[i]) THEN Struck(prev[i], crits[i]) ELSE prev[i]]

\* A pending setTimeout; run tells which invocation of the updater started it.
Timer(kind, due, id, xpReward, goldReward) ==
  [kind |-> kind, due |-> due, id |-> id, xpReward |-> xpReward, goldReward |-> goldReward,
   run |-> 1]

\* The reward timers the updater starts: one for each enemy the swing kills.
RewardTimers(prev, crits, t) ==
  {Timer("reward", t + DEATH_REWARD_MS, prev[i].id, prev[i].xpReward, prev[i].goldReward) :
     i \in {j \in DOMAIN prev : InRange(prev[j]) /\ prev[j].health - Damage(crits[j]) <= 0}}

\* The timers of the other invocation when React, in StrictMode, invokes the
\* updater of the swing twice (with the same critical hits drawn).
StrictRewardTimers(prev, crits, t) ==
  {[tm EXCEPT !.run = 2] : tm \in RewardTimers(prev, crits, t)}

\* The ids of the enemies a swing marks dying.
MarkedDying(prev, crits) ==
  {prev[i].id : i \in {j \in DOMAIN prev :
                         InRange(prev[j]) /\ prev[j].health - Damage(crits[j]) <= 0}}

\* Positions are whole pixels: the displacement of a frame, a fraction of a
\* pixel in the direction d, counts as one pixel.
WholeStep(d) == IF d > 0 THEN 1 ELSE IF d < 0 THEN -1 ELSE 0

\* Enemy update of a tick for one live enemy on its platform.
Patrolled(enemy) ==
  LET found == FindFirst(SelectSeq(platforms, LAMBDA p :
                 /\ p.level = enemy.platformLevel
                 /\ enemy.worldX >= p.worldX - 20
                 /\ enemy.worldX <= p.worldX + p.width + 20))
  IN IF found = <<>>
     THEN [enemy EXCEPT !.isPatrolling = FALSE, !.platformLevel = "ground",
                        !.platformHeight = 0]
     ELSE LET p == found[1]
              newWorldX == enemy.worldX + WholeStep(enemy.patrolDirection * enemy.speed)
          IN IF newWorldX < p.worldX + 20
             THEN [enemy EXCEPT !.worldX = p.worldX + 20, !.patrolDirection = 1,
                                !.hit = FALSE]
             ELSE IF newWorldX > p.worldX + p.width - 60
             THEN [enemy EXCEPT !.worldX = p.worldX + p.width - 60,
                                !.patrolDirection = -1, !.hit = FALSE]
             ELSE [enemy EXCEPT !.worldX = newWorldX, !.hit = FALSE]

\* Enemy update of a tick for one live enemy that chases the player.
Chased(enemy) ==
  LET distanceToPlayer == playerPos.x - enemy.worldX
      dirToPlayer == IF distanceToPlayer > 0 THEN 1 ELSE -1
  IN IF Abs(distanceToPlayer) > STOP_DISTANCE
     THEN [enemy EXCEPT !.worldX = enemy.worldX + WholeStep(dirToPlayer * enemy.speed),
                        !.patrolDirection = dirToPlayer, !.hit = FALSE]
     ELSE [enemy EXCEPT !.hit = FALSE]

\* The enemy update without the early return for dying enemies.
UpdatedAlsoDying(enemy) ==
  IF enemy.isPatrolling /\ enemy.platformLevel # "ground" THEN Patrolled(enemy)
  ELSE Chased(enemy)

\* prev.map(enemy => ...) of the enemy update.
Updated(enemy) ==
  IF enemy.dying THEN enemy
  ELSE IF enemy.isPatrolling /\ enemy.platformLevel # "ground" THEN Patrolled(enemy)
  ELSE Chased(enemy)

\* setEnemies(prev => prev.map(...).filter(...)) of the tick.
UpdateEnemies(prev) ==
  SelectSeq([i \in DOMAIN prev |-> Updated(prev[i])],
            LAMBDA e : Abs(e.worldX - playerPos.x) < width * 2)

\* The enemy spawnEnemy made as the k-th of the stage, a slime, at the place its
\* spawn and the chase of the frames since have brought it to.
Spawned(k) ==
  LET spot == CombatSpots[k]
  IN [id |-> AIWorld.idCounter + k, worldX |-> spot.x,
      platformHeight |-> PLATFORM_LEVELS[spot.level], platformLevel |-> spot.level,
      platformId |-> CHOOSE pid \in PlatformIdAt(spot.x, spot.level) : TRUE,
      health |-> Slime.health, dying |-> FALSE, hit |-> FALSE,
      xpReward |-> Slime.xpReward, goldReward |-> Slime.goldReward,
      speed |-> Slime.speed, patrolDirection |-> -1,
      isPatrolling |-> spot.level # "ground"]

\* The enemy arrays of at most MaxEnemies of these enemies, in spawn order.
CombatEnemies ==
  {SelectSeq([k \in DOMAIN CombatSpots |-> Spawned(k)],
             LAMBDA e : e.id - AIWorld.idCounter \in picked) :
     picked \in {some \in SUBSET DOMAIN CombatSpots :
                   Cardinality(some) <= Min(MaxEnemies, MAX_ENEMIES)}}

\* The stage in mid-game: the world of AIWorld, the player on the ground or on
\* the ladder at x = 1446, enemies around, and the character the owner hands in.
InitCombatWith(characters) ==
  LET gen == AIWorld
  IN /\ width = 800
     /\ playerPos \in CombatStarts
     /\ now = StartNow
     /\ lastCleanupRef = StartNow
     /\ lastPlatformChunkRef = gen.lastPlatformChunkRef
     /\ idCounter = gen.idCounter + Len(CombatSpots)
     /\ platforms = gen.newPlatforms
     /\ ladders = gen.newLadders
     /\ physPlatforms = Ids(gen.newPlatforms)
     /\ physLadders = gen.newLadders
     /\ newPlatforms = <<>>
     /\ newLadders = <<>>
     /\ autoAttackEnabled = FALSE
     /\ aiStateRef = [state |-> AI_STATE.MOVING_RIGHT, targetId |-> null]
     /\ wasAutoAttackEnabledRef = FALSE
     /\ aiPrev = [state |-> AI_STATE.MOVING_RIGHT, targetId |-> null]
     /\ enemies \in CombatEnemies
     /\ isClimbing = (playerPos.y > 0)
     /\ keysPressed = AllKeysUp
     /\ currentKeys = AllKeysUp
     /\ InitPhysVars
     /\ facingRight = TRUE
     /\ character \in characters
     /\ isAttacking = FALSE
     /\ attackTimeoutRef = <<>>
     /\ lastAttackRef = 0
     /\ timers = {}
     /\ mounted = TRUE
     /\ lastSwing = NoSwing
     /\ lastAward = NoAward
     /\ InitLoopVars
     /\ InitOrderVars
     /\ InitMoreVars

InitCombat == InitCombatWith(StartCharacters)

\* gameUpdate restricted to the combat: the enemy update, then attackEnemy when
\* the attack key is down and the attack speed allows it. attackEnemy restarts
\* the animation timer and its updater strikes the enemies in range.
GameUpdateCombat(attack, crits, runs) ==
  LET t == now + CombatGap
      moved == UpdateEnemies(enemies)
      swings == attack /\ t - lastAttackRef > character.attackSpeed
      cleared == {tm \in timers : tm.kind = "anim" /\ attackTimeoutRef = <<tm.due>>}
  IN /\ mounted
     /\ ticks < MaxCombatTicks
     /\ \A i \in DOMAIN crits :
          crits[i] => (swings /\ i \in DOMAIN moved /\ InRange(moved[i]))
     /\ now' = t
     /\ ticks' = ticks + 1
     /\ currentKeys' = [keysPressed EXCEPT !.attack = attack]
     /\ IF swings
        THEN /\ lastAttackRef' = t
             /\ isAttacking' = TRUE
             /\ attackTimeoutRef' = <<t + ATTACK_ANIMATION_MS>>
             /\ enemies' = Swing(moved, crits)
             /\ timers' = ((timers \ cleared)
                             \cup {Timer("anim", t + ATTACK_ANIMATION_MS, null, 0, 0)})
                             \cup RewardTimers(moved, crits, t)
                             \cup (IF runs = 2 THEN StrictRewardTimers(moved, crits, t)
                                   ELSE {})
             /\ killed' = killed \cup MarkedDying(moved, crits)
             /\ lastSwing' = [swung |-> TRUE, at |-> t, before |-> moved]
        ELSE /\ enemies' = moved
             /\ runs = 1
             /\ UNCHANGED <<lastAttackRef, isAttacking, attackTimeoutRef, timers, lastSwing,
                            killed>>
     /\ UNCHANGED <<width, playerPos, lastCleanupRef, lastPlatformChunkRef, idCounter,
                    platforms, ladders, physPlatforms, physLadders, newPlatforms,
                    newLadders, autoAttackEnabled, aiStateRef, wasAutoAttackEnabledRef,
                    aiPrev, isClimbing, keysPressed, bodies, playerClimbing,
                    jumpCooldownRef, jumpRequestedRef, lastJump, facingRight, character,
                    mounted, lastAward, loopVars, orderVars, ladderFound, paid>>

\* Left / right key of a tick: setFacingRight.
SetFacingRight(v) ==
  /\ mounted
  /\ v # facingRight
  /\ facingRight' = v
  /\ UNCHANGED <<worldVars, aiVars, physVars, character, isAttacking, attackTimeoutRef,
                 lastAttackRef, timers, mounted, lastSwing, lastAward, loopVars, orderVars, moreVars>>

\* The 500 ms timer of the attack animation fires.
AttackAnimationDone(tm) ==
  /\ tm \in timers
  /\ tm.kind = "anim"
  /\ now >= tm.due
  /\ isAttacking' = FALSE
  /\ timers' = timers \ {tm}
  /\ UNCHANGED <<worldVars, aiVars, physVars, facingRight, character, attackTimeoutRef,
                 lastAttackRef, mounted, lastSwing, lastAward, loopVars, orderVars, moreVars>>

\* The 200 ms timer of a kill fires: gold pickup, XP and gold for the character,
\* onKill, and the 500 ms timer of the removal.
DeathReward(tm) ==
  LET after == Reward(character, tm.xpReward, tm.goldReward)
  IN /\ tm \in timers
     /\ tm.kind = "reward"
     /\ now >= tm.due
     /\ character' = after
     /\ lastAward' = [awarded |-> TRUE, prev |-> character, xpReward |-> tm.xpReward,
                      levelsGained |-> after.level - character.level]
     /\ timers' = (timers \ {tm})
                     \cup {[Timer("removal", now + ENEMY_REMOVAL_MS, tm.id, 0, 0)
                              EXCEPT !.run = tm.run]}
     /\ paid' = Append(paid, tm.id)
     /\ UNCHANGED <<worldVars, aiVars, physVars, facingRight, isAttacking,
                    attackTimeoutRef, lastAttackRef, mounted, lastSwing, loopVars, orderVars,
                    ladderFound, killed>>

\* The 500 ms timer of the removal fires: prev.filter(e => e.id !== enemy.id).
EnemyRemoval(tm) ==
  /\ tm \in timers
  /\ tm.kind = "removal"
  /\ now >= tm.due
  /\ enemies' = WithoutId(enemies, tm.id)
  /\ timers' = timers \ {tm}
  /\ UNCHANGED <<worldVars, autoAttackEnabled, aiStateRef, wasAutoAttackEnabledRef, aiPrev,
                 isClimbing, keysPressed, currentKeys, physVars, facingRight, character,
                 isAttacking, attackTimeoutRef, lastAttackRef, mounted, lastSwing,
                 lastAward, loopVars, orderVars, moreVars>>

\* The stage is unmounted: the cleanup of the mount effect destroys the engine,
\* and the cleanup of useGameLoop cancels the frame.
Unmount ==
  LET E == destroy(Engine)
  IN /\ mounted
     /\ mounted' = FALSE
     /\ bodies' = E.bodies
     /\ playerClimbing' = E.playerClimbing
     /\ physPlatforms' = E.platforms
     /\ physLadders' = E.ladders
     /\ UNCHANGED <<width, playerPos, now, lastCleanupRef, lastPlatformChunkRef, idCounter,
                    platforms, ladders, newPlatforms, newLadders, aiVars, jumpCooldownRef,
                    jumpRequestedRef, lastJump, ticks, facingRight, character, isAttacking,
                    attackTimeoutRef, lastAttackRef, timers, lastSwing, lastAward, loopVars, orderVars, moreVars>>

\* Time goes by with no frame running.
TimePasses ==
  /\ ~mounted
  /\ ticks < MaxCombatTicks
  /\ now' = now + CombatGap
  /\ ticks' = ticks + 1
  /\ UNCHANGED <<width, playerPos, lastCleanupRef, lastPlatformChunkRef, idCounter,
                 platforms, ladders, physPlatforms, physLadders, newPlatforms, newLadders,
                 aiVars, bodies, playerClimbing, jumpCooldownRef, jumpRequestedRef,
                 lastJump, restVars>>

NextCombat ==
  \/ \E attack \in BOOLEAN, crits \in [1..MaxEnemies -> BOOLEAN] :
       GameUpdateCombat(attack, crits, 1)
  \/ \E v \in BOOLEAN : SetFacingRight(v)
  \/ \E tm \in timers : AttackAnimationDone(tm)
  \/ \E tm \in timers : DeathReward(tm)
  \/ \E tm \in timers : EnemyRemoval(tm)

SpecCombat == InitCombat /\ [][NextCombat]_vars

\* The combat of a development build: main.jsx renders the game inside
\* StrictMode, where React may invoke the updater of a swing a second time.
NextStrict ==
  \/ \E attack \in BOOLEAN, crits \in [1..MaxEnemies -> BOOLEAN], runs \in {1, 2} :
       GameUpdateCombat(attack, crits, runs)
  \/ \E v \in BOOLEAN : SetFacingRight(v)
  \/ \E tm \in timers : AttackAnimationDone(tm)
  \/ \E tm \in timers : DeathReward(tm)
  \/ \E tm \in timers : EnemyRemoval(tm)

SpecStrict == InitCombat /\ [][NextStrict]_vars

\* ------------------------------------------------------------- upgrades
\* Gold the character has gathered when the upgrade panel is opened.
UpgradeGold == {0, 120, 400}

UpgradeNames == {"Sharpen Blade", "Swift Strikes"}

\* upgrades[].cost: Math.floor(50 * Math.pow(1.5, Math.floor(baseDamage / 5))) and
\* Math.floor(100 * Math.pow(1.8, Math.floor((BASE_ATTACK_SPEED - attackSpeed) / 50))).
UpgradeCost(name, c) ==
  IF name = "Sharpen Blade"
  THEN LET k == c.baseDamage \div 5 IN (50 * 3^k) \div 2^k
  ELSE LET k == (BASE_ATTACK_SPEED - c.attackSpeed) \div 50 IN (100 * 9^k) \div 5^k

\* upgrades[].disabled
UpgradeDisabled(name, c) ==
  name = "Swift Strikes" /\ c.attackSpeed <= 200

\* upgrades[].action, the updater handed to setCharacter.
UpgradeAction(name, c) ==
  IF name = "Sharpen Blade"
  THEN [c EXCEPT !.baseDamage = c.baseDamage + 5]
  ELSE [c EXCEPT !.attackSpeed = Max(200, c.attackSpeed - 50)]

\* buyUpgrade(upgrade): the cost is taken off the gold and the action applied,
\* when the gold suffices and the upgrade is not disabled.
BuyUpgrade(name) ==
  /\ mounted
  /\ character.gold >= UpgradeCost(name, character)
  /\ ~UpgradeDisabled(name, character)
  /\ character' = UpgradeAction(name, [character EXCEPT
                                         !.gold = character.gold - UpgradeCost(name, character)])
  /\ UNCHANGED <<worldVars, aiVars, physVars, facingRight, isAttacking, attackTimeoutRef,
                 lastAttackRef, timers, mounted, lastSwing, lastAward, loopVars, orderVars,
                 moreVars>>

\* The combat of a character that has gold to spend.
InitUpgrade ==
  InitCombatWith({[c EXCEPT !.gold = g] : c \in StartCharacters, g \in UpgradeGold})

NextUpgrade ==
  \/ NextCombat
  \/ \E name \in UpgradeNames : BuyUpgrade(name)

SpecUpgrade == InitUpgrade /\ [][NextUpgrade]_vars

\* The combat of one stage that can be unmounted at any moment.
InitTeardown ==
  /\ InitCombat
  /\ playerPos.y = 0
  /\ character = NewCharacter

NextTeardown ==
  \/ NextCombat
  \/ Unmount
  \/ TimePasses

SpecTeardown == InitTeardown /\ [][NextTeardown]_vars

\* ------------------------------------------------------------- useGameLoop
\* Delta without the cap.
loopDeltaUncapped(elapsed) == elapsed

\* Math.min(delta, 16.667)
loopDelta(elapsed) == Min(elapsed, DELTA_CAP)

InitLoop == InitAI

\* The refs of the hook and the frames the browser holds, as a value.
Handle == [frameRef |-> frameRef, frames |-> frames, frameSeq |-> frameSeq]

\* requestAnimationFrame(loop) assigned to frameRef.current
requestFrame(h) ==
  [frameRef |-> h.frameSeq + 1, frames |-> h.frames \cup {h.frameSeq + 1},
   frameSeq |-> h.frameSeq + 1]

\* pause(): cancelAnimationFrame of a frame that already fired does nothing.
pause(h) ==
  IF h.frameRef # null
  THEN [h EXCEPT !.frames = h.frames \ {h.frameRef}, !.frameRef = null]
  ELSE h

\* resume(); lastTimeRef is set by the caller of this operator.
resume(h) == IF h.frameRef = null THEN requestFrame(h) ELSE h

\* The handle calls the update makes while it runs, at most two, in order.
HandleCalls(h, calls) ==
  LET call(g, c) == IF c = "pause" THEN pause(g) ELSE resume(g)
  IN IF calls = <<>> THEN h
     ELSE IF Len(calls) = 1 THEN call(h, calls[1])
     ELSE call(call(h, calls[1]), calls[2])

\* The browser runs the requested frame: loop() reads the time, calls the game
\* update once with the capped delta and requests the next frame. calls is what
\* the update does with the handle of the loop while it runs.
Loop(id, gap, calls) ==
  LET t == perfNow + gap
      running == [Handle EXCEPT !.frames = frames \ {id}]
      after == requestFrame(HandleCalls(running, calls))
  IN /\ id \in frames
     /\ t <= MaxLoopTime
     /\ frameSeq < MaxFrames
     /\ perfNow' = t
     /\ lastTimeRef' = t
     /\ updateCalls' = updateCalls + 1
     /\ lastDelta' = loopDelta(t - lastTimeRef)
     /\ pauseReturned' = IF calls = <<>> THEN pauseReturned
                         ELSE calls[Len(calls)] = "pause"
     /\ resumedAt' = <<>>
     /\ frameSeq' = after.frameSeq
     /\ frameRef' = after.frameRef
     /\ frames' = after.frames
     /\ UNCHANGED <<worldVars, aiVars, physVars, combatVars, orderVars, moreVars>>

\* pause() called between two frames.
Pause ==
  /\ pauseReturned' = TRUE
  /\ frames' = pause(Handle).frames
  /\ frameRef' = pause(Handle).frameRef
  /\ UNCHANGED <<worldVars, aiVars, physVars, combatVars, orderVars, moreVars, perfNow,
                 lastTimeRef, frameSeq, updateCalls, lastDelta, resumedAt>>

\* resume() called between two frames.
Resume ==
  /\ frameSeq < MaxFrames
  /\ pauseReturned' = FALSE
  /\ lastTimeRef' = IF frameRef = null THEN perfNow ELSE lastTimeRef
  /\ resumedAt' = IF frameRef = null THEN <<perfNow>> ELSE resumedAt
  /\ frameSeq' = resume(Handle).frameSeq
  /\ frameRef' = resume(Handle).frameRef
  /\ frames' = resume(Handle).frames
  /\ UNCHANGED <<worldVars, aiVars, physVars, combatVars, orderVars, moreVars, perfNow,
                 updateCalls, lastDelta>>

\* The scheduling effect runs again because a dep changed: its cleanup cancels
\* the frame of frameRef, the effect requests a frame.
RerunEffect ==
  LET cleaned == IF frameRef # null THEN [Handle EXCEPT !.frames = frames \ {frameRef}]
                 ELSE Handle
      after == requestFrame(cleaned)
  IN /\ frameSeq < MaxFrames
     /\ frameSeq' = after.frameSeq
     /\ frameRef' = after.frameRef
     /\ frames' = after.frames
     /\ UNCHANGED <<worldVars, aiVars, physVars, combatVars, orderVars, moreVars, perfNow,
                    lastTimeRef, updateCalls, lastDelta, pauseReturned, resumedAt>>

\* Time goes by while no frame is requested.
PausedTime(gap) ==
  /\ frames = {}
  /\ perfNow + gap <= MaxLoopTime
  /\ perfNow' = perfNow + gap
  /\ UNCHANGED <<worldVars, aiVars, physVars, combatVars, orderVars, moreVars, lastTimeRef,
                 frameRef, frames, frameSeq, updateCalls, lastDelta, pauseReturned, resumedAt>>

\* The update makes at most one call of the handle.
NextLoop ==
  \/ \E id \in frames, gap \in LoopGaps, calls \in {<<>>, <<"pause">>, <<"resume">>} :
       Loop(id, gap, calls)
  \/ Pause
  \/ Resume
  \/ \E gap \in LoopGaps : PausedTime(gap)

SpecLoop == InitLoop /\ [][NextLoop]_vars

\* The handle used freely: the update may call pause() and resume() one after
\* the other, and the scheduling effect may run again.
HandleCallSeqs ==
  {<<>>, <<"pause">>, <<"resume">>, <<"pause", "resume">>, <<"resume", "resume">>}

NextHandle ==
  \/ \E id \in frames, gap \in LoopGaps, calls \in HandleCallSeqs : Loop(id, gap, calls)
  \/ Pause
  \/ Resume
  \/ RerunEffect
  \/ \E gap \in LoopGaps : PausedTime(gap)

SpecHandle == InitLoop /\ [][NextHandle]_vars

\* ------------------------------------------------ the statements of a tick
\* gameUpdate statement by statement, in the order of its text. The values a
\* later statement of the tick reads from the render it was created in
\* (playerPos, facingRight) change at the render after the tick.

\* A game mounted at the start of the stage before its first tick.
InitOrder ==
  /\ width = 800
  /\ playerPos = [x |-> 200, y |-> 0]
  /\ now = StartNow
  /\ lastCleanupRef = 0
  /\ lastPlatformChunkRef = 0
  /\ idCounter = 0
  /\ platforms = <<>>
  /\ ladders = <<>>
  /\ physPlatforms = {}
  /\ physLadders = <<>>
  /\ newPlatforms = <<>>
  /\ newLadders = <<>>
  /\ InitAIVars
  /\ InitRestVars
  /\ InitPhysVars

\* const now = Date.now() and the periodic cleanup of off-screen platforms and
\* ladders.
CleanupStep(gap) ==
  LET t == now + gap
      cleanupDue == t - lastCleanupRef > CLEANUP_INTERVAL
      unrenderLimit == scrollOffset - UNRENDER_DISTANCE
      keptPlatforms == KeepFrom(platforms, unrenderLimit)
      keptLadders == KeepFrom(ladders, unrenderLimit)
  IN /\ mounted
     /\ tickStep = 0
     /\ ticks < MaxTicks
     /\ t <= MaxNow
     /\ now' = t
     /\ tickStep' = 1
     /\ IF cleanupDue
        THEN /\ lastCleanupRef' = t
             /\ platforms' = keptPlatforms
             /\ ladders' = keptLadders
             /\ physPlatforms' = RetirePlatforms(physPlatforms,
                                                 Ids(platforms) \ Ids(keptPlatforms))
             /\ physLadders' = WithoutIds(physLadders, Ids(ladders) \ Ids(keptLadders))
             /\ ran' = <<"cleanup">>
        ELSE /\ ran' = <<>>
             /\ UNCHANGED <<lastCleanupRef, platforms, ladders, physPlatforms, physLadders>>
     /\ UNCHANGED <<width, playerPos, lastPlatformChunkRef, idCounter, newPlatforms,
                    newLadders, aiVars, physVars, combatVars, loopVars, moreVars, lastSpawnRef>>

\* generatePlatformsAndLadders(playerPos.x + width)
GenerateStep ==
  LET gen == generatePlatformsAndLadders(playerPos.x + width, lastPlatformChunkRef, idCounter)
  IN /\ tickStep = 1
     /\ tickStep' = 2
     /\ ran' = Append(ran, "generation")
     /\ newPlatforms' = gen.newPlatforms
     /\ newLadders' = gen.newLadders
     /\ lastPlatformChunkRef' = gen.lastPlatformChunkRef
     /\ idCounter' = gen.idCounter
     /\ platforms' = platforms \o gen.newPlatforms
     /\ ladders' = ladders \o gen.newLadders
     /\ physPlatforms' = physPlatforms \cup Ids(gen.newPlatforms)
     /\ physLadders' = physLadders \o gen.newLadders
     /\ UNCHANGED <<width, playerPos, now, lastCleanupRef, aiVars, physVars, combatVars,
                    loopVars, moreVars, lastSpawnRef>>

\* From the position read to setIsMoving, r being what the auto-attack branch
\* decided: the tick's keys, then jump, horizontal movement and climbing.
DecideAndMove(r) ==
  LET physics == Engine
      currentPos == getPlayerPosition(physics)
      currentPlayerY == Max(0, currentPos.y)
      nearbyLadders == getNearbyLadders(physics, currentPos.x, currentPlayerY, LADDER_TOLERANCE)
      keys == r.currentKeys
      grounded == isPlayerGrounded(physics)
      j == JumpHandling([engine |-> physics, climbing |-> isClimbing], keys, grounded)
      h == HorizontalMovement([engine |-> j.engine, climbing |-> j.climbing],
                              keys, nearbyLadders)
      c == Climbing(h, keys, nearbyLadders, currentPlayerY)
      l == ResetClimbing(c, grounded, nearbyLadders)
  IN /\ tickStep' = 3
     /\ ran' = Append(ran, "input")
     /\ aiStateRef' = r.aiStateRef
     /\ wasAutoAttackEnabledRef' = r.wasAutoAttackEnabledRef
     /\ currentKeys' = keys
     /\ aiPrev' = aiStateRef
     /\ jumpCooldownRef' = j.jumpCooldownRef
     /\ jumpRequestedRef' = j.jumpRequestedRef
     /\ lastJump' = j.lastJump
     /\ isClimbing' = l.climbing
     /\ bodies' = l.engine.bodies
     /\ playerClimbing' = l.engine.playerClimbing
     /\ UNCHANGED <<worldVars, autoAttackEnabled, enemies, keysPressed, ticks, combatVars,
                    loopVars, moreVars, lastSpawnRef>>

InputStep ==
  /\ tickStep = 2
  /\ DecideAndMove(AutoAttackBranch)

\* physics.update(delta)
PhysicsStep ==
  LET stepped == update(Engine)
  IN /\ tickStep = 3
     /\ tickStep' = 4
     /\ ran' = Append(ran, "physics")
     /\ bodies' = stepped.bodies
     /\ playerClimbing' = stepped.playerClimbing
     /\ UNCHANGED <<worldVars, aiVars, jumpCooldownRef, jumpRequestedRef, lastJump, ticks,
                    combatVars, loopVars, moreVars, lastSpawnRef>>

\* setEnemies(prev => prev.map(...).filter(...)): the enemies move.
EnemyStep ==
  /\ tickStep = 4
  /\ tickStep' = 5
  /\ ran' = Append(ran, "enemies")
  /\ enemies' = UpdateEnemies(enemies)
  /\ UNCHANGED <<worldVars, autoAttackEnabled, aiStateRef, wasAutoAttackEnabledRef, aiPrev,
                 isClimbing, keysPressed, currentKeys, physVars, combatVars, loopVars, moreVars,
                 lastSpawnRef>>

\* The enemy spawnEnemy makes on the ground at the edge of the view.
SpawnedAtEdge(id, spawnFromRight) ==
  LET distanceProgress == playerPos.x \div 1000
  IN [id |-> id,
      worldX |-> IF spawnFromRight THEN scrollOffset + width + 100 ELSE scrollOffset - 100,
      platformHeight |-> PLATFORM_LEVELS["ground"], platformLevel |-> "ground",
      platformId |-> null,
      health |-> (Slime.baseHealth * (10 + 2 * distanceProgress)) \div 10,
      dying |-> FALSE, hit |-> FALSE,
      xpReward |-> Slime.xpReward, goldReward |-> Slime.goldReward,
      speed |-> Slime.speed, patrolDirection |-> IF spawnFromRight THEN -1 ELSE 1,
      isPatrolling |-> FALSE]

\* The spawn when ENEMY_SPAWN_RATE has passed: lastSpawnRef and spawnEnemy(),
\* which draws the side only when it is called.
SpawnStep(spawnFromRight) ==
  LET spawnDue == now - lastSpawnRef > ENEMY_SPAWN_RATE
      room == Len(enemies) < MAX_ENEMIES /\ Len(enemies) < MaxEnemies
  IN /\ tickStep = 5
     /\ tickStep' = 6
     /\ spawnDue \/ spawnFromRight
     /\ IF spawnDue
        THEN /\ lastSpawnRef' = now
             /\ ran' = Append(ran, "spawn")
             /\ IF room
                THEN /\ enemies' = Append(enemies, SpawnedAtEdge(idCounter + 1, spawnFromRight))
                     /\ idCounter' = idCounter + 1
                ELSE UNCHANGED <<enemies, idCounter>>
        ELSE UNCHANGED <<lastSpawnRef, ran, enemies, idCounter>>
     /\ UNCHANGED <<width, playerPos, now, lastCleanupRef, lastPlatformChunkRef, platforms,
                    ladders, physPlatforms, physLadders, newPlatforms, newLadders,
                    autoAttackEnabled, aiStateRef, wasAutoAttackEnabledRef, aiPrev,
                    isClimbing, keysPressed, currentKeys, physVars, combatVars, loopVars, moreVars>>

\* The attack when the tick's attack key is down and the attack speed allows
\* it: lastAttackRef and attackEnemy(); the last statement of the tick.
AttackStep(crits) ==
  LET swings == currentKeys.attack /\ now - lastAttackRef > character.attackSpeed
      cleared == {tm \in timers : tm.kind = "anim" /\ attackTimeoutRef = <<tm.due>>}
  IN /\ tickStep = 6
     /\ tickStep' = 7
     /\ \A i \in DOMAIN crits :
          crits[i] => (swings /\ i \in DOMAIN enemies /\ InRange(enemies[i]))
     /\ IF swings
        THEN /\ ran' = Append(ran, "combat")
             /\ lastAttackRef' = now
             /\ isAttacking' = TRUE
             /\ attackTimeoutRef' = <<now + ATTACK_ANIMATION_MS>>
             /\ enemies' = Swing(enemies, crits)
             /\ timers' = ((timers \ cleared)
                             \cup {Timer("anim", now + ATTACK_ANIMATION_MS, null, 0, 0)})
                             \cup RewardTimers(enemies, crits, now)
             /\ lastSwing' = [swung |-> TRUE, at |-> now, before |-> enemies]
             /\ killed' = killed \cup MarkedDying(enemies, crits)
        ELSE UNCHANGED <<ran, lastAttackRef, isAttacking, attackTimeoutRef, enemies, timers,
                         lastSwing, killed>>
     /\ UNCHANGED <<worldVars, autoAttackEnabled, aiStateRef, wasAutoAttackEnabledRef, aiPrev,
                    isClimbing, keysPressed, currentKeys, physVars, facingRight, character,
                    mounted, lastAward, loopVars, ladderFound, paid, lastSpawnRef>>

\* The render after the tick: setPlayerPos of the position the physics step
\* left, setFacingRight of the last horizontal key of the tick.
RenderStep ==
  LET pos == getPlayerPosition(Engine)
  IN /\ tickStep = 7
     /\ tickStep' = 0
     /\ ticks' = ticks + 1
     /\ playerPos' = [x |-> pos.x, y |-> Max(0, pos.y)]
     /\ facingRight' = IF currentKeys.right THEN TRUE
                       ELSE IF currentKeys.left THEN FALSE ELSE facingRight
     /\ UNCHANGED <<width, now, lastCleanupRef, lastPlatformChunkRef, idCounter, platforms,
                    ladders, physPlatforms, physLadders, newPlatforms, newLadders, aiVars,
                    bodies, playerClimbing, jumpCooldownRef, jumpRequestedRef, lastJump,
                    character, isAttacking, attackTimeoutRef, lastAttackRef, timers,
                    mounted, lastSwing, lastAward, loopVars, moreVars, ran, lastSpawnRef>>

\* Event handlers run between two ticks.
NextOrder ==
  \/ \E gap \in OrderGaps : CleanupStep(gap)
  \/ GenerateStep
  \/ InputStep
  \/ PhysicsStep
  \/ EnemyStep
  \/ \E spawnFromRight \in BOOLEAN : SpawnStep(spawnFromRight)
  \/ \E crits \in [1..MaxEnemies -> BOOLEAN] : AttackStep(crits)
  \/ RenderStep
  \/ tickStep = 0 /\ \E k \in OrderKeys : KeyDown(k)
  \/ tickStep = 0 /\ \E k \in OrderKeys : KeyUp(k)
  \/ tickStep = 0 /\ ToggleAutoAttack

SpecOrder == InitOrder /\ [][NextOrder]_vars

\* ------------------------------------------------------------- enemy horde
\* spawnEnemy without the test of enemies.length.
spawnEnemyUnguarded(count, id, preferredLevel, spawnFromRight, r) ==
  LET edgeX == IF spawnFromRight THEN scrollOffset + width + 100 ELSE scrollOffset - 100
      nearbyPlatform == FindFirst(SelectSeq(platforms, LAMBDA p :
                          /\ p.level = preferredLevel
                          /\ Abs(2 * p.worldX + p.width - 2 * edgeX) < 800))
      newEnemy == SpawnedAtEdge(id, spawnFromRight)
  IN IF preferredLevel = "ground" THEN <<newEnemy>>
     ELSE IF nearbyPlatform = <<>> THEN <<>>
     ELSE LET minX == nearbyPlatform[1].worldX + 20
              maxX == nearbyPlatform[1].worldX + nearbyPlatform[1].width - 20
          IN <<[newEnemy EXCEPT !.worldX = minX + (r * (maxX - minX)) \div 1000,
                                !.platformHeight = PLATFORM_LEVELS[preferredLevel],
                                !.platformLevel = preferredLevel,
                                !.platformId = nearbyPlatform[1].id,
                                !.isPatrolling = TRUE]>>

\* spawnEnemy() of a render whose enemies array holds count enemies: the enemy
\* it appends, if any. preferredLevel, spawnFromRight and r (thousandths) are
\* its draws of Math.random(); platforms, scrollOffset and width are those of
\* the render.
spawnEnemy(count, id, preferredLevel, spawnFromRight, r) ==
  LET edgeX == IF spawnFromRight THEN scrollOffset + width + 100 ELSE scrollOffset - 100
      nearbyPlatform == FindFirst(SelectSeq(platforms, LAMBDA p :
                          /\ p.level = preferredLevel
                          /\ Abs(2 * p.worldX + p.width - 2 * edgeX) < 800))
      newEnemy == SpawnedAtEdge(id, spawnFromRight)
  IN IF count >= MAX_ENEMIES THEN <<>>
     ELSE IF preferredLevel = "ground" THEN <<newEnemy>>
     ELSE IF nearbyPlatform = <<>> THEN <<>>
     ELSE LET minX == nearbyPlatform[1].worldX + 20
              maxX == nearbyPlatform[1].worldX + nearbyPlatform[1].width - 20
          IN <<[newEnemy EXCEPT !.worldX = minX + (r * (maxX - minX)) \div 1000,
                                !.platformHeight = PLATFORM_LEVELS[preferredLevel],
                                !.platformLevel = preferredLevel,
                                !.platformId = nearbyPlatform[1].id,
                                !.isPatrolling = TRUE]>>

\* The stage generated up to the view of a player at x.
HordeWorld(x, w) == generatePlatformsAndLadders(x + w, 0, 0)

\* An enemy spawned on platform p that has patrolled to its right turning point.
Patroller(id, p) ==
  [SpawnedAtEdge(id, TRUE) EXCEPT !.worldX = p.worldX + p.width - 60,
                                  !.platformHeight = PLATFORM_LEVELS[p.level],
                                  !.platformLevel = p.level,
                                  !.platformId = p.id,
                                  !.isPatrolling = TRUE]

\* An enemy spawned on the ground that has chased the player to a stop.
Chaser(id) ==
  [SpawnedAtEdge(id, TRUE) EXCEPT !.worldX = playerPos.x + STOP_DISTANCE]

\* The game in mid-stage right after a cleanup: the platforms and ladders from
\* the unrender limit on, one enemy or none on the oldest platform left, and a
\* crowd on the ground around the player.
InitHorde ==
  /\ width \in HordeWidths
  /\ playerPos \in [x : HordeStartXs, y : {0}]
  /\ now = StartNow
  /\ lastCleanupRef = StartNow
  /\ LET gen == HordeWorld(playerPos.x, width)
         kept == KeepFrom(gen.newPlatforms, scrollOffset - UNRENDER_DISTANCE)
         keptLadders == KeepFrom(gen.newLadders, scrollOffset - UNRENDER_DISTANCE)
     IN /\ lastPlatformChunkRef = gen.lastPlatformChunkRef
        /\ idCounter = gen.idCounter + MAX_ENEMIES
        /\ platforms = kept
        /\ ladders = keptLadders
        /\ physPlatforms = Ids(kept)
        /\ physLadders = keptLadders
        /\ \E patrollers \in {0, 1}, crowd \in HordeCrowds :
             enemies = [k \in 1..(patrollers + crowd) |->
                          IF k <= patrollers THEN Patroller(gen.idCounter + k, kept[1])
                          ELSE Chaser(gen.idCounter + k)]
  /\ newPlatforms = <<>>
  /\ newLadders = <<>>
  /\ autoAttackEnabled = FALSE
  /\ aiStateRef = [state |-> AI_STATE.MOVING_RIGHT, targetId |-> null]
  /\ wasAutoAttackEnabledRef = FALSE
  /\ aiPrev = [state |-> AI_STATE.MOVING_RIGHT, targetId |-> null]
  /\ isClimbing = FALSE
  /\ keysPressed = AllKeysUp
  /\ currentKeys = AllKeysUp
  /\ InitPhysVars
  /\ InitRestVars

\* gameUpdate restricted to the world and the enemies: periodic cleanup,
\* generation, the new player position, the enemy update with the platforms of
\* the render, and spawnEnemy() with the enemies.length of the render when
\* ENEMY_SPAWN_RATE has passed.
GameUpdateHorde(gap, dx, preferredLevel, spawnFromRight, r) ==
  LET t == now + gap
      cleanupDue == t - lastCleanupRef > CLEANUP_INTERVAL
      unrenderLimit == scrollOffset - UNRENDER_DISTANCE
      gen == generatePlatformsAndLadders(playerPos.x + width, lastPlatformChunkRef, idCounter)
      keptPlatforms == IF cleanupDue THEN KeepFrom(platforms, unrenderLimit) ELSE platforms
      keptLadders == IF cleanupDue THEN KeepFrom(ladders, unrenderLimit) ELSE ladders
      spawnDue == t - lastSpawnRef > ENEMY_SPAWN_RATE
      made == IF spawnDue
              THEN spawnEnemy(Len(enemies), gen.idCounter + 1, preferredLevel,
                              spawnFromRight, r)
              ELSE <<>>
  IN /\ t <= MaxNow
     /\ ticks < MaxTicks
     /\ ticks' = ticks + 1
     /\ playerPos.x + dx <= HordeMaxX
     /\ now' = t
     /\ lastCleanupRef' = IF cleanupDue THEN t ELSE lastCleanupRef
     /\ newPlatforms' = gen.newPlatforms
     /\ newLadders' = gen.newLadders
     /\ lastPlatformChunkRef' = gen.lastPlatformChunkRef
     /\ platforms' = keptPlatforms \o gen.newPlatforms
     /\ ladders' = keptLadders \o gen.newLadders
     /\ physPlatforms' = RetirePlatforms(physPlatforms \cup Ids(gen.newPlatforms),
                                        Ids(platforms) \ Ids(keptPlatforms))
     /\ physLadders' = WithoutIds(physLadders \o gen.newLadders,
                                  Ids(ladders) \ Ids(keptLadders))
     /\ playerPos' = [playerPos EXCEPT !.x = playerPos.x + dx]
     /\ enemies' = UpdateEnemies(enemies) \o made
     /\ idCounter' = gen.idCounter + Len(made)
     /\ lastSpawnRef' = IF spawnDue THEN t ELSE lastSpawnRef
     /\ UNCHANGED <<width, autoAttackEnabled, aiStateRef, wasAutoAttackEnabledRef, aiPrev,
                    isClimbing, keysPressed, currentKeys, bodies, playerClimbing,
                    jumpCooldownRef, jumpRequestedRef, lastJump, combatVars, loopVars,
                    tickStep, ran, moreVars>>

\* A tick, or a lethal hit on the newest enemy of the array.
NextHorde ==
  \/ \E gap \in FrameGaps, dx \in {0, StepX}, preferredLevel \in {"ground", "level1"},
        spawnFromRight \in BOOLEAN, r \in SpawnDraws :
       GameUpdateHorde(gap, dx, preferredLevel, spawnFromRight, r)
  \/ EnemyLethalHit(Len(enemies))

SpecHorde == InitHorde /\ [][NextHorde]_vars

\* ------------------------------------------------------- findLadderToTarget
\* An enemy standing in the middle of a platform of the stage, or on the
\* ground at x when k = 0.
TargetOn(k, x) ==
  IF k = 0
  THEN [id |-> AIWorld.idCounter + 1, worldX |-> x,
        platformHeight |-> PLATFORM_LEVELS["ground"], platformLevel |-> "ground",
        platformId |-> null, health |-> 30, dying |-> FALSE]
  ELSE LET q == AIWorld.newPlatforms[k]
       IN [id |-> AIWorld.idCounter + 1, worldX |-> q.worldX + q.width \div 2,
           platformHeight |-> PLATFORM_LEVELS[q.level], platformLevel |-> q.level,
           platformId |-> q.id, health |-> 30, dying |-> FALSE]

\* The world of AIWorld, the player somewhere in it, one enemy to reach.
InitLadder ==
  LET gen == AIWorld
  IN /\ width = 800
     /\ playerPos \in [x : LadderAskXs, y : LadderAskYs]
     /\ now = StartNow
     /\ lastCleanupRef = StartNow
     /\ lastPlatformChunkRef = gen.lastPlatformChunkRef
     /\ idCounter = gen.idCounter + 1
     /\ platforms = gen.newPlatforms
     /\ ladders = gen.newLadders
     /\ physPlatforms = Ids(gen.newPlatforms)
     /\ physLadders = gen.newLadders
     /\ newPlatforms = <<>>
     /\ newLadders = <<>>
     /\ autoAttackEnabled = TRUE
     /\ aiStateRef = [state |-> AI_STATE.MOVING_RIGHT, targetId |-> null]
     /\ wasAutoAttackEnabledRef = FALSE
     /\ aiPrev = [state |-> AI_STATE.MOVING_RIGHT, targetId |-> null]
     /\ \E k \in 0..LadderTargetPlatforms : enemies = <<TargetOn(k, 1430)>>
     /\ isClimbing = FALSE
     /\ keysPressed = AllKeysUp
     /\ currentKeys = AllKeysUp
     /\ InitRestVars
     /\ InitPhysVars

\* findLadderToTarget(playerPos, target, ladders)
FindLadder ==
  /\ ladderFound = <<>>
  /\ ladderFound' = <<findLadderToTarget(playerPos, enemies[1], ladders)>>
  /\ UNCHANGED <<worldVars, aiVars, physVars, combatVars, loopVars, orderVars, killed, paid>>

NextLadder == FindLadder

SpecLadder == InitLadder /\ [][NextLadder]_vars

\* ------------------------------------------------------------------ claims
ChunkOf(p) == p.worldX \div PLATFORM_CHUNK_SIZE

\* A ladder of ls whose links bottomPlatformId lead to ground within n hops,
\* through platforms of ps that satisfy the chunk restriction c (c < 0: any chunk).
RECURSIVE LeadsToGround(_, _, _, _, _)
LeadsToGround(l, ls, ps, c, n) ==
  \/ l.bottomPlatformId = null /\ l.bottomHeight = 0
  \/ /\ n > 0
     /\ \E q \in Range(ps) :
          /\ q.id = l.bottomPlatformId
          /\ (c < 0 \/ ChunkOf(q) = c)
          /\ \E k \in Range(ls) :
               /\ k.topPlatformId = q.id
               /\ LeadsToGround(k, ls, ps, c, n - 1)

\* C1: right after generatePlatformsAndLadders every platform it created is the
\* top of a ladder (same id, same height) from which bottomPlatformId links lead
\* to a ground ladder, passing only through platforms of the same chunk.
C1_GeneratedReachable ==
  \A p \in Range(newPlatforms) :
    \E l \in Range(newLadders) :
      /\ l.topPlatformId = p.id
      /\ l.topHeight = p.height
      /\ LeadsToGround(l, newLadders, newPlatforms, ChunkOf(p), 3)

\* A call that produced a platform hung on a lower platform and a platform above
\* level1 that needed the fallback ladder.
C1_Witness ==
  /\ \E l \in Range(newLadders) : l.bottomPlatformId # null
  /\ \E l \in Range(newLadders) : l.bottomPlatformId = null /\ l.topLevel # "level1"

\* C2: every platform still in the platform collection is reachable from ground
\* through ladders still in the ladder collection and platforms still present.
C2_PresentReachable ==
  \A p \in Range(platforms) :
    \E l \in Range(ladders) :
      /\ l.topPlatformId = p.id
      /\ LeadsToGround(l, ladders, platforms, -1, 3)

\* The live enemy the stored AI state is locked on, as a set (empty: none).
LiveLocked ==
  {e \in Range(enemies) : e.id = aiStateRef.targetId /\ ~e.dying}

Patrol == [state |-> "MOVING_RIGHT", targetId |-> null]

\* C3: a tick that finds the locked target dying or gone from the enemy list
\* stores PATROL with no target.
C3_LostTargetToPatrol ==
  [][(GameUpdateAI /\ autoAttackEnabled /\ aiStateRef.targetId # null /\ LiveLocked = {})
       => aiStateRef' = Patrol]_vars

\* The latest tick found its locked target in the list, marked dying.
C3_Witness ==
  /\ wasAutoAttackEnabledRef
  /\ aiPrev.targetId # null
  /\ aiStateRef = Patrol
  /\ \E e \in Range(enemies) : e.id = aiPrev.targetId /\ e.dying /\ e.health = 0

C5_PatrolLocksNearest ==
  [][(GameUpdateAI /\ autoAttackEnabled /\ aiStateRef.state = "MOVING_RIGHT")
       => IF \E e \in Range(enemies) : ~e.dying
          THEN /\ aiStateRef'.state = "MOVING_TO_ENEMY"
               /\ \E e \in Range(enemies) :
                    /\ e.id = aiStateRef'.targetId
                    /\ ~e.dying
                    /\ \A f \in Range(enemies) :
                         ~f.dying =>
                           Abs(e.worldX - playerPos.x) + Abs(e.platformHeight - playerPos.y) * 5
                             <= Abs(f.worldX - playerPos.x)
                                  + Abs(f.platformHeight - playerPos.y) * 5
          ELSE /\ aiStateRef' = Patrol
               /\ currentKeys'.right
               /\ ~currentKeys'.left /\ ~currentKeys'.up /\ ~currentKeys'.down
               /\ ~currentKeys'.attack]_vars

\* A PATROL tick chose between two live enemies and locked the one that is
\* farther away horizontally but nearer by the weighted distance.
C5_Witness ==
  /\ wasAutoAttackEnabledRef
  /\ aiPrev.state = "MOVING_RIGHT"
  /\ aiStateRef.state = "MOVING_TO_ENEMY"
  /\ \E e, f \in Range(enemies) :
       /\ e.id = aiStateRef.targetId
       /\ f.id # e.id
       /\ ~e.dying /\ ~f.dying
       /\ Abs(e.worldX - playerPos.x) > Abs(f.worldX - playerPos.x)

InReachOf(e) ==
  /\ Abs(e.platformHeight - playerPos.y) < 50
  /\ 10 * Abs(e.worldX - playerPos.x) <= 8 * 100

\* C6: from SEEKING with a live locked target the tick stores ATTACKING exactly
\* when the player is not climbing, the height difference is below 50 and the
\* horizontal distance is at most 0.8 * attackRange; otherwise SEEKING; the lock
\* is kept either way.
C6_SeekingToAttacking ==
  [][(GameUpdateAI /\ autoAttackEnabled /\ aiStateRef.state = "MOVING_TO_ENEMY"
        /\ LiveLocked # {})
       => /\ aiStateRef'.targetId = aiStateRef.targetId
          /\ aiStateRef'.state \in {"ATTACKING_ENEMY", "MOVING_TO_ENEMY"}
          /\ aiStateRef'.state = "ATTACKING_ENEMY"
               <=> (~isClimbing /\ \A e \in LiveLocked : InReachOf(e))
          /\ isClimbing => aiStateRef'.state # "ATTACKING_ENEMY"]_vars

\* A SEEKING tick reached its target and switched to ATTACKING.
C6_Witness ==
  /\ wasAutoAttackEnabledRef
  /\ aiPrev.state = "MOVING_TO_ENEMY"
  /\ aiStateRef.state = "ATTACKING_ENEMY"
  /\ aiStateRef.targetId = aiPrev.targetId

\* C7: from ATTACKING with a live locked target the tick stores SEEKING with the
\* same target when the target is out of range or off the player's level, and
\* otherwise ATTACKING with the same target and keys attack only.
C7_AttackingKeepsLock ==
  [][(GameUpdateAI /\ autoAttackEnabled /\ aiStateRef.state = "ATTACKING_ENEMY"
        /\ LiveLocked # {})
       => /\ aiStateRef'.targetId = aiStateRef.targetId
          /\ IF \A e \in LiveLocked : InReachOf(e)
             THEN /\ aiStateRef'.state = "ATTACKING_ENEMY"
                  /\ currentKeys'.attack
                  /\ ~currentKeys'.left /\ ~currentKeys'.right
                  /\ ~currentKeys'.up /\ ~currentKeys'.down
             ELSE aiStateRef'.state = "MOVING_TO_ENEMY"]_vars

\* An ATTACKING tick saw its target leave and went back to SEEKING, lock kept.
C7_Witness ==
  /\ wasAutoAttackEnabledRef
  /\ aiPrev.state = "ATTACKING_ENEMY"
  /\ aiStateRef.state = "MOVING_TO_ENEMY"
  /\ aiStateRef.targetId = aiPrev.targetId

\* C8: jumpPlayer changes the player's velocity only when the player is grounded
\* and returns true exactly then; a tick starts the 200 ms jump cooldown only
\* when the jump it made was accepted.
C8_CooldownOnlyWhenAccepted ==
  /\ lastJump.called =>
       /\ lastJump.accepted = lastJump.grounded
       /\ lastJump.velocityChanged => lastJump.grounded
  /\ lastJump.cooldownStarted => lastJump.accepted

\* C9: isGrounded(body) is false for the body in climbing mode; for any other
\* body it is decided by that body's height and platform overlap alone.
C9_GroundedPerBody ==
  \A k \in DOMAIN bodies :
    LET body == bodies[k]
    IN IF k = "player" /\ playerClimbing
       THEN ~isGrounded(Engine, body)
       ELSE isGrounded(Engine, body) = (body.y <= 5 \/ isOnPlatform(Engine, body))

\* C10: without a player body every player query returns its neutral default
\* (zero vector, false) and every player mutation leaves the engine as it was.
C10_NoPlayerNeutral ==
  ~HasPlayer(Engine) =>
    /\ getPlayerPosition(Engine) = [x |-> 0, y |-> 0]
    /\ getPlayerVelocity(Engine) = [x |-> 0, y |-> 0]
    /\ isPlayerGrounded(Engine) = FALSE
    /\ isPlayerJumping(Engine) = FALSE
    /\ isPlayerFalling(Engine) = FALSE
    /\ jumpPlayer(Engine, JUMP_FORCE) = [engine |-> Engine, returned |-> FALSE]
    /\ \A dx \in {-33, 33} : movePlayer(Engine, dx, 0) = Engine
    /\ \A dy \in {-90, 90} : climbPlayer(Engine, dy) = Engine
    /\ snapToLadder(Engine, 1446) = Engine
    /\ \A climbing \in BOOLEAN : setPlayerClimbing(Engine, climbing) = Engine

\* C11: removePlatform(id) and removeLadder(id) are idempotent: a second call, or
\* a call with an id that was never added, leaves platforms and ladders as they
\* were, and a call never takes away a platform or ladder of another id.
C11_RemovalIdempotent ==
  \A id \in RegistryRemoveIds :
    LET p1 == removePlatform(Engine, id)
        l1 == removeLadder(Engine, id)
    IN /\ removePlatform(p1, id) = p1
       /\ removeLadder(l1, id) = l1
       /\ id \notin physPlatforms => p1 = Engine
       /\ id \notin Ids(physLadders) => l1 = Engine
       /\ p1.platforms = physPlatforms \ {id}
       /\ p1.ladders = physLadders /\ p1.bodies = bodies
       /\ l1.ladders = SelectSeq(physLadders, LAMBDA l : l.id # id)
       /\ l1.platforms = physPlatforms /\ l1.bodies = bodies

\* An engine with a body that holds platforms 6 and 9 and ladders 12 and 8, in
\* that order, but neither platform 5 nor ladder 7: RegistryRemoveIds then names
\* present, absent and never-added ids.
C11_Witness ==
  /\ physPlatforms = {6, 9}
  /\ Len(physLadders) = 2 /\ physLadders[1].id = 12 /\ physLadders[2].id = 8
  /\ bodies # NoBodies

\* C12: the hit-set of a swing is exactly the enemies that are not dying, whose
\* distance in the facing direction lies in [-50, attackRange] and whose
\* platformHeight is within 50 of player.y; the swing damages every enemy of the
\* hit-set and leaves every other enemy as it was.
InHitSet(e) ==
  /\ ~e.dying
  /\ horizontalDist(e) \in (0 - 50)..attackRange
  /\ Abs(e.platformHeight - playerPos.y) <= 50

C12_HitSetExact ==
  [][lastSwing' # lastSwing =>
       LET before == lastSwing'.before
       IN /\ Len(enemies') = Len(before)
          /\ \A i \in DOMAIN before :
               IF InHitSet(before[i])
               THEN /\ enemies'[i].id = before[i].id
                    /\ enemies'[i].health < before[i].health
                    /\ enemies'[i].hit
               ELSE enemies'[i] = before[i]]_vars

\* C12 witness: a swing to the right has just hit an enemy at the far edge of
\* the reach and left alone an enemy one pixel beyond the tolerance behind.
C12_Witness ==
  /\ lastSwing.swung
  /\ lastSwing.at = now
  /\ facingRight
  /\ \E i, j \in DOMAIN enemies :
       /\ enemies[i].hit
       /\ horizontalDist(enemies[i]) = attackRange
       /\ ~enemies[j].hit
       /\ horizontalDist(enemies[j]) = 0 - 51
       /\ enemies[j].health = Slime.health

\* C13: a lethal hit marks the enemy dying with health 0 in the same update and
\* keeps it in the collection; XP and gold come only when the 200 ms timer of
\* that death is due, the removal only when the 500 ms timer started by the
\* reward is due; a dying enemy is not hit, not moved and not revived.
DyingIds(es) == {e.id : e \in {d \in Range(es) : d.dying}}

C13_DyingUntilRemoved ==
  [][/\ \A e \in Range(enemies') : e.health >= 0 /\ (e.dying <=> e.health = 0)
     /\ \A id \in DyingIds(enemies') \ DyingIds(enemies) :
          /\ id \in Ids(enemies)
          /\ Len(enemies') = Len(lastSwing'.before)
          /\ character' = character
          /\ \E tm \in timers' : /\ tm.kind = "reward"
                                 /\ tm.id = id
                                 /\ tm.due = now' + DEATH_REWARD_MS
     /\ character' # character =>
          \E tm \in timers \ timers' : /\ tm.kind = "reward"
                                       /\ now >= tm.due
                                       /\ tm.id \in DyingIds(enemies)
                                       /\ tm.id \in DyingIds(enemies')
     /\ \A tm \in timers' \ timers :
          tm.kind = "removal" => character' # character /\ tm.due >= now + ENEMY_REMOVAL_MS
     /\ \A id \in DyingIds(enemies) \ Ids(enemies') :
          \E tm \in timers \ timers' : /\ tm.kind = "removal"
                                       /\ tm.id = id
                                       /\ now >= tm.due
     /\ \A e \in Range(enemies) :
          (e.dying /\ e.id \in Ids(enemies')) => e \in Range(enemies')]_vars

\* C13 witness: an enemy killed by a swing is still in the collection, dying,
\* after its reward has been paid and while its removal is pending, and a later
\* frame has run since.
C13_Witness ==
  /\ lastAward.awarded
  /\ \E e \in Range(enemies), tm \in timers :
       /\ e.dying
       /\ e.health = 0
       /\ tm.kind = "removal"
       /\ tm.id = e.id
       /\ now > lastSwing.at
       /\ now < tm.due

\* C14: an XP award leaves 0 <= xp < xpToNext and never lowers the level; each
\* level gained took the xpToNext of that level off the xp, the next xpToNext
\* being floor(100 * 1.5^(level-1)); the award can gain several levels; health
\* becomes the new maxHealth exactly when a level was gained.
RECURSIVE XpTaken(_, _, _)
XpTaken(cost, level, gained) ==
  IF gained = 0 THEN 0
  ELSE cost + XpTaken((100 * 3^level) \div 2^level, level + 1, gained - 1)

C14_AwardLevels ==
  [][character' # character =>
       LET gained == character'.level - character.level
       IN /\ character'.xp >= 0
          /\ character'.xp < character'.xpToNext
          /\ gained >= 0
          /\ \E tm \in timers \ timers' :
               character.xp + tm.xpReward
                 = character'.xp + XpTaken(character.xpToNext, character.level, gained)
          /\ character'.xpToNext =
               IF gained = 0 THEN character.xpToNext
               ELSE (100 * 3^(character'.level - 1)) \div 2^(character'.level - 1)
          /\ character'.health =
               IF gained > 0 THEN character'.maxHealth ELSE character.health]_vars

\* C14 witness: a character at level 1 with xpToNext 100 whose xp came to 250
\* with the award has ended at level 3 with full health.
C14_Witness ==
  /\ lastAward.awarded
  /\ lastAward.prev.level = 1
  /\ lastAward.prev.xpToNext = 100
  /\ lastAward.prev.xp + lastAward.xpReward = 250
  /\ lastAward.levelsGained = 2
  /\ character.level = 3
  /\ character.xp = 0
  /\ character.xpToNext = 225
  /\ character.health = character.maxHealth
  /\ character.maxHealth = 121

\* C18: once the stage is torn down no timer started by an attack runs its
\* callback: the animation flag, the character and the enemies stay as the
\* teardown left them and no further timer is started.
C18_NoTimerAfterTeardown ==
  [][~mounted => /\ isAttacking' = isAttacking
                 /\ character' = character
                 /\ enemies' = enemies
                 /\ timers' = timers]_vars

\* C15: a frame that fires calls the game update exactly once, with
\* delta = min(now - lastTime, 16.667 ms), and requests exactly one next frame;
\* after a stall there is no second update and the delta is still at most the cap.
FrameFired ==
  /\ \E id \in frames : id \notin frames'
  /\ perfNow' > perfNow
  /\ lastTimeRef' = perfNow'

C15_OneCappedUpdatePerFrame ==
  [][FrameFired =>
       /\ updateCalls' = updateCalls + 1
       /\ lastDelta' = Min(perfNow' - lastTimeRef, DELTA_CAP)
       /\ lastDelta' <= DELTA_CAP
       /\ Cardinality(frames' \ frames) = 1]_vars

\* C15 witness: the first frame came 40 ms after the render; the update has run
\* once, with the cap as delta, and one frame is pending.
C15_Witness ==
  /\ perfNow = 40000
  /\ updateCalls = 1
  /\ lastDelta = DELTA_CAP
  /\ lastTimeRef = perfNow
  /\ Cardinality(frames) = 1

\* C16: from the return of pause() to the call of resume() the game update is
\* not called, also when pause() was called by the update itself; resume()
\* requests a frame, and the delta of that frame is measured from resume().
C16_PausedUntilResume ==
  [][/\ pauseReturned => updateCalls' = updateCalls
     /\ resumedAt' # <<>> => frames' # {}
     /\ (resumedAt # <<>> /\ updateCalls' # updateCalls) =>
          lastDelta' = Min(perfNow' - resumedAt[1], DELTA_CAP)]_vars

\* C19: between ticks the platform collection and physics.platforms hold the
\* same ids, and the ladder collection and physics.ladders hold the same ids,
\* each id once, whatever generation and cleanup have done.
C19_CollectionsMatchEngine ==
  /\ Ids(platforms) = physPlatforms
  /\ Ids(ladders) = Ids(physLadders)
  /\ Cardinality(Ids(platforms)) = Len(platforms)
  /\ Cardinality(Ids(ladders)) = Len(ladders)
  /\ Len(physLadders) = Len(ladders)

\* C19 witness: the latest tick ran the cleanup, platforms and ladders made
\* earlier are retired, and platforms and ladders made later are present.
C19_Witness ==
  /\ lastCleanupRef = now
  /\ \E id \in 1..idCounter : id \notin Ids(platforms) \cup Ids(ladders)
  /\ \E old \in 1..idCounter :
       /\ old \notin physPlatforms \cup Ids(physLadders)
       /\ \E p \in Range(platforms) : p.id > old /\ p.id \in physPlatforms
       /\ \E l \in Range(ladders) : l.id > old /\ l.id \in Ids(physLadders)

\* C20: every platform of a generation is the top of exactly one ladder of that
\* generation: from ground for level1; from the platform one level below in the
\* same chunk, at an x inside the overlap, when that platform exists and
\* overlaps by 40 or more; from ground otherwise. The ladder stands within its
\* top platform, and bottomPlatformId is null exactly for ladders from ground.
LevelBelow == [level1 |-> "ground", level2 |-> "level1", level3 |-> "level2"]

Overlap(p, q) ==
  Min(p.worldX + p.width, q.worldX + q.width) - Max(p.worldX, q.worldX)

FromGround(l) ==
  l.bottomPlatformId = null /\ l.bottomLevel = "ground" /\ l.bottomHeight = 0

C20_OneLadderPerPlatform ==
  \A p \in Range(newPlatforms) :
    LET tops == {i \in DOMAIN newLadders : newLadders[i].topPlatformId = p.id}
        below == {q \in Range(newPlatforms) :
                    /\ ChunkOf(q) = ChunkOf(p)
                    /\ q.level = LevelBelow[p.level]
                    /\ Overlap(p, q) >= 40}
    IN /\ Cardinality(tops) = 1
       /\ \A i \in tops :
            LET l == newLadders[i]
            IN /\ l.topLevel = p.level
               /\ l.topHeight = p.height
               /\ l.worldX >= p.worldX
               /\ l.worldX <= p.worldX + p.width
               /\ (l.bottomPlatformId = null) <=> (l.bottomLevel = "ground" /\ l.bottomHeight = 0)
               /\ IF p.level = "level1" \/ below = {}
                  THEN FromGround(l)
                  ELSE \E q \in below :
                         /\ l.bottomPlatformId = q.id
                         /\ l.bottomLevel = q.level
                         /\ l.bottomHeight = q.height
                         /\ l.worldX >= Max(p.worldX, q.worldX)
                         /\ l.worldX <= Min(p.worldX + p.width, q.worldX + q.width)

\* C20 witness: one generation made a level1 platform with its ground ladder, a
\* platform hung on the platform below it, and a platform above level1 that has
\* a platform below it in its chunk but too little overlap, hence a ladder from
\* ground.
C20_Witness ==
  /\ \E l \in Range(newLadders) : l.topLevel = "level1" /\ FromGround(l)
  /\ \E l \in Range(newLadders) : l.bottomPlatformId # null
  /\ \E p, q \in Range(newPlatforms), l \in Range(newLadders) :
       /\ ChunkOf(q) = ChunkOf(p)
       /\ p.level # "level1"
       /\ q.level = LevelBelow[p.level]
       /\ Overlap(p, q) < 40
       /\ l.topPlatformId = p.id
       /\ FromGround(l)

\* The place of a step in the order input / AI decision, physics step, world
\* generation, enemy movement, combat, cleanup.
StepRank ==
  [input |-> 1, physics |-> 2, generation |-> 3, enemies |-> 4, combat |-> 5, cleanup |-> 6]

\* C17: within a tick the steps run in the order input / AI decision, physics
\* step, world generation, enemy movement, combat, cleanup: of two of these
\* steps the tick has run, the one run first comes first in that order, so
\* generation follows the AI decision and the physics step, and the
\* retirement of stale platforms and ladders follows the combat.
C17_TickOrder ==
  \A i, j \in DOMAIN ran :
    (i < j /\ ran[i] \in DOMAIN StepRank /\ ran[j] \in DOMAIN StepRank)
      => StepRank[ran[i]] < StepRank[ran[j]]

\* The ladder asked for, the enemy it was asked for, and the ladders the player
\* can step onto from where it stands.
AskedTarget == enemies[1]

Ascending == AskedTarget.platformHeight > playerPos.y

AccessibleLadders ==
  {l \in Range(ladders) : playerPos.y >= l.bottomHeight - 10 /\ playerPos.y <= l.topHeight + 10}

\* The accessible ladders whose far end is the target's platform (the ground
\* for a target on the ground).
DirectLadders ==
  {l \in AccessibleLadders :
     IF Ascending
     THEN IF AskedTarget.platformId # null
          THEN l.topPlatformId = AskedTarget.platformId
          ELSE AskedTarget.platformLevel # "ground" /\ l.topLevel = AskedTarget.platformLevel
     ELSE IF AskedTarget.platformId # null
          THEN l.bottomPlatformId = AskedTarget.platformId
          ELSE l.bottomLevel = AskedTarget.platformLevel}

\* The accessible ladders whose far end lies beyond the player's level towards
\* the target's level; with strict the target's own level is excluded.
ProgressLadders(strict) ==
  LET playerIndex == LevelIndex(getPlayerCurrentLevel(playerPos.y))
      targetIndex == LevelIndex(AskedTarget.platformLevel)
      last == IF strict THEN 1 ELSE 0
  IN {l \in AccessibleLadders :
        IF Ascending
        THEN LevelIndex(l.topLevel) > playerIndex
             /\ LevelIndex(l.topLevel) <= targetIndex - last
        ELSE LevelIndex(l.bottomLevel) < playerIndex
             /\ LevelIndex(l.bottomLevel) >= targetIndex + last}

\* The answer is a horizontally nearest ladder of the direct ladders when
\* there is one, else of the progress ladders, and null when there is none.
NearestOfChosenKind(strict) ==
  LET cand == IF DirectLadders # {} THEN DirectLadders ELSE ProgressLadders(strict)
      r == ladderFound[1]
  IN IF cand = {} THEN r = <<>>
     ELSE /\ Len(r) = 1
          /\ r[1] \in cand
          /\ \A l \in cand : Abs(r[1].worldX - playerPos.x) <= Abs(l.worldX - playerPos.x)

\* C21 as stated: findLadderToTarget returns a ladder that connects directly to
\* the target's platform whenever an accessible one exists; else a progress
\* ladder whose top (ascending) or bottom (descending) level index lies
\* strictly between the player's level index and the target's; among the
\* candidates the horizontally nearest, and null when there is no candidate.
C21_StrictlyBetween == ladderFound # <<>> => NearestOfChosenKind(TRUE)

\* C21 amended: as above, but the progress ladder's top (ascending) or bottom
\* (descending) level index lies beyond the player's level index and up to and
\* including the target's level index.
C21_UpToTargetLevel == ladderFound # <<>> => NearestOfChosenKind(FALSE)

\* C21 witness: with no direct ladder, the answer is a ladder that ends on the
\* target's own level, on another platform.
C21_Witness ==
  /\ ladderFound # <<>>
  /\ DirectLadders = {}
  /\ ladderFound[1] # <<>>
  /\ Ascending
  /\ ladderFound[1][1].topLevel = AskedTarget.platformLevel
  /\ ladderFound[1][1].topPlatformId # AskedTarget.platformId

\* C22: at any time at most one frame callback of the game loop is scheduled,
\* across mount, a re-run of the scheduling effect, pause(), resume() and
\* repeated resume() calls; two loops never run side by side.
C22_OneFrameScheduled == Cardinality(frames) <= 1

\* The platforms the generator makes for one chunk.
PlatformsOfChunk(c) == PlatformPass(c, 0, 0, <<>>).platforms

\* C23: every chunk is generated at most once and in increasing order: the
\* cursor never decreases, a tick generates exactly the chunks between the old
\* cursor and the new one, none skipped, in increasing order, and never a chunk
\* at or behind the old cursor, whether or not its platforms were retired.
C23_ChunksOnceInOrder ==
  [][LET old == lastPlatformChunkRef \div PLATFORM_CHUNK_SIZE
         new == lastPlatformChunkRef' \div PLATFORM_CHUNK_SIZE
         made == newPlatforms'
     IN /\ lastPlatformChunkRef' >= lastPlatformChunkRef
        /\ lastPlatformChunkRef' = new * PLATFORM_CHUNK_SIZE
        /\ \A q \in Range(made) : ChunkOf(q) > old /\ ChunkOf(q) <= new
        /\ \A i, j \in DOMAIN made : i < j => ChunkOf(made[i]) <= ChunkOf(made[j])
        /\ \A c \in (old + 1)..new :
             Cardinality({i \in DOMAIN made : ChunkOf(made[i]) = c})
               = Len(PlatformsOfChunk(c))
        /\ Ids(made) \cap Ids(platforms) = {}]_vars

\* C23 witness: the player has moved back; a chunk behind the cursor whose
\* platforms were retired lies within the kept distance again, and the tick
\* generated nothing.
C23_Witness ==
  /\ now > StartNow
  /\ newPlatforms = <<>>
  /\ \E c \in 1..(lastPlatformChunkRef \div PLATFORM_CHUNK_SIZE) :
       /\ PlatformsOfChunk(c) # <<>>
       /\ \A q \in Range(platforms) : ChunkOf(q) # c
       /\ c * PLATFORM_CHUNK_SIZE >= scrollOffset - UNRENDER_DISTANCE

\* C24: at every tick boundary, auto-attack enabled or not, the stored AI state
\* is PATROL exactly when the stored targetId is null, and a tick that stores a
\* target stores the id of an enemy that is present and not dying in the enemy
\* list the tick used.
C24_StateMatchesTarget ==
  /\ [](aiStateRef.state = "MOVING_RIGHT" <=> aiStateRef.targetId = null)
  /\ [][(GameUpdateAI /\ aiStateRef'.targetId # null)
          => /\ autoAttackEnabled
             /\ aiStateRef'.state \in {"MOVING_TO_ENEMY", "ATTACKING_ENEMY"}
             /\ \E e \in Range(enemies) : e.id = aiStateRef'.targetId /\ ~e.dying]_vars

\* C24 witness: the stored state is ATTACKING with the id of an enemy that was
\* live in the list of the tick that stored it and is dying or gone by now.
C24_Witness ==
  /\ aiStateRef.state = "ATTACKING_ENEMY"
  /\ aiStateRef.targetId # null
  /\ LiveLocked = {}

\* C25: while auto-attack stays enabled and the locked enemy stays in the enemy
\* list and not dying, a tick keeps the locked targetId, also when another
\* enemy is nearer by the weighted distance; a stored target is never replaced
\* by another one without the stored state passing through PATROL.
C25_LockHeld ==
  [][/\ (GameUpdateAI /\ autoAttackEnabled /\ LiveLocked # {})
          => aiStateRef'.targetId = aiStateRef.targetId
     /\ (aiStateRef.targetId # null /\ aiStateRef'.targetId # aiStateRef.targetId)
          => aiStateRef' = Patrol]_vars

\* C25 witness: a seeking tick kept its target while another live enemy is
\* nearer to the player by the weighted distance.
C25_Witness ==
  /\ wasAutoAttackEnabledRef
  /\ aiPrev.state = "MOVING_TO_ENEMY"
  /\ aiStateRef.state = "MOVING_TO_ENEMY"
  /\ aiStateRef.targetId = aiPrev.targetId
  /\ \E e \in LiveLocked : \E f \in Range(enemies) :
       /\ ~f.dying
       /\ WeightedDistance(f, playerPos) < WeightedDistance(e, playerPos)

\* C26: at every tick boundary the game's isClimbing, the engine's
\* playerClimbing and the static state of the player body agree, whatever keys
\* the ticks saw.
C26_ClimbingFlagsAgree ==
  /\ HasPlayer(Engine)
  /\ isClimbing = playerClimbing
  /\ bodies["player"].isStatic = isClimbing

\* C26 witness: a tick jumped off the ladder on a stored jump request and, with
\* the up key down, went on to climb; it left the player off the ladder with a
\* dynamic body.
C26_Witness ==
  /\ lastJump.called
  /\ ~lastJump.grounded
  /\ currentKeys.up
  /\ ~currentKeys.jump
  /\ ~isClimbing
  /\ ~playerClimbing
  /\ ~bodies["player"].isStatic

\* How many rewards an enemy has yielded, and how many are still to come.
TimesPaid(id) == Cardinality({i \in DOMAIN paid : paid[i] = id})

RewardsPending(id) == Cardinality({tm \in timers : tm.kind = "reward" /\ tm.id = id})

\* C27: every enemy that was marked dying yields its reward exactly once: it
\* has been paid once, or it has not been paid and one reward timer is pending
\* for it; the gold of the character is the gold of these rewards; an enemy
\* that was never marked dying yields nothing.
C27_RewardOnce ==
  /\ \A id \in killed : TimesPaid(id) + RewardsPending(id) = 1
  /\ \A i \in DOMAIN paid : paid[i] \in killed
  /\ \A tm \in timers : tm.kind = "reward" => tm.id \in killed
  /\ character.gold = Slime.goldReward * Len(paid)

\* C28: the character's baseDamage and maxHealth never decrease: whatever
\* upgrades were bought and XP awarded, no step, a level-up included, leaves
\* baseDamage or maxHealth lower than it was before the step.
C28_StatsNeverDecrease ==
  [][/\ character'.baseDamage >= character.baseDamage
     /\ character'.maxHealth >= character.maxHealth]_vars

\* C29: at every tick boundary every enemy of the collection has
\* platformHeight = PLATFORM_LEVELS[platformLevel] and a platformId that is
\* null exactly when its level is 'ground', also after a patrolling enemy lost
\* its platform and fell to the ground.
C29_EnemyPlatformFields ==
  \A i \in DOMAIN enemies :
    /\ enemies[i].platformHeight = PLATFORM_LEVELS[enemies[i].platformLevel]
    /\ (enemies[i].platformId = null) <=> (enemies[i].platformLevel = "ground")

\* C30: the enemy collection never holds more than MAX_ENEMIES enemies, dying
\* ones included, and a tick that starts with MAX_ENEMIES or more in the
\* collection, its spawn included, adds none.
C30_EnemyCap ==
  /\ [](Len(enemies) <= MAX_ENEMIES)
  /\ [][Len(enemies) >= MAX_ENEMIES => Len(enemies') <= Len(enemies)]_vars

\* C30 witness: spawnEnemy() was called in the tick that just ended with
\* MAX_ENEMIES enemies in the collection, one of them dying, and none of them
\* is new.
C30_Witness ==
  /\ Len(enemies) = MAX_ENEMIES
  /\ lastSpawnRef = now
  /\ now > StartNow
  /\ \E i \in DOMAIN enemies : enemies[i].dying
  /\ \E x \in HordeStartXs, w \in HordeWidths :
       \A i \in DOMAIN enemies : enemies[i].id <= HordeWorld(x, w).idCounter + MAX_ENEMIES

====
